---- MODULE Spec2Model ----
(***************************************************************************)
(* Cubby Logic Remote: the MIDI bridge server (midi-server.js), the        *)
(* display client's MIDI handler (midiHandler.ts) and track resolver       *)
(* (page.tsx), and the remote-trigger auto-assignment                      *)
(* (logicArticulationParser.ts).                                           *)
(*                                                                         *)
(* The specifications share the module; each moves its own variables and   *)
(* leaves the others at their initial values:                              *)
(*   SpecBridge    the WebSocket bridge server                             *)
(*   SpecSend      MidiHandler.setChannel / sendMessages                   *)
(*   SpecResolver  Home's onTrackName handler                              *)
(*   SpecAssign    autoAssignRemoteTriggers as a pure function             *)
(*   SpecReconnect MidiHandler's bridge connection and its retries         *)
(*   SpecPort      findAvailablePort                                       *)
(*   SpecLoad      the catalogue's load operation (POST)                   *)
(*   SpecBridgeFirst  the bridge server in its first, fixed-port variant   *)
(*   SpecSending   the bridge server and a MidiHandler, midi messages only *)
(*   SpecParse     parseLogicArticulationSet as a pure function            *)
(*   SpecUpload    Home's handleFileUpload                                 *)
(*   SpecSockets   MidiHandler's sockets and timers over initialize calls  *)
(*   SpecDetector  the track detector (LogicTrackMonitor.swift) and its    *)
(*                 connection to the bridge server                         *)
(***************************************************************************)
EXTENDS Integers, Sequences, FiniteSets, TLC

VARIABLES
    \* ---- bridge server (midi-server.js) ----
    variant,                \* which midi-server.js runs: 1 (fixed port) or 2
    readyState,             \* ws.readyState of every socket
    clientType,             \* ws.clientType of every socket
    wsClients,              \* the Set wsClients
    outbox,                 \* per socket, what the server passed to ws.send, in order
    midiOut,                \* TRUE when a MIDI output port is open
    selectedOutPortName,    \* name of the chosen output port, or NoPort
    midiSent,               \* what was passed to midiOut.sendMessage, in order
    lastArticulationSetId,  \* last id seen on the PlugSearch input
    evt,                    \* the event the server handled last
    nEvents,                \* number of events handled so far
    \* ---- MidiHandler (midiHandler.ts) ----
    channel,                \* this.channel
    webSocket,              \* this.webSocket: "null", or the socket's readyState
    selectedOutput,         \* this.selectedOutput: "null" or "output"
    call,                   \* the sendMessages call that has just run, or NoCall
    \* ---- Home (page.tsx) ----
    currentTrack,           \* state currentTrack
    currentSet,             \* state currentSet (by set name)
    loadedSets,             \* state loadedSets (the names of the cached sets)
    inflight,               \* the started onTrackName runs awaiting a fetch
    applied,                \* the onTrackName run completed last
    nTracks,                \* number of trackChange events delivered so far
    catalogueRoot,          \* the catalogue's root directory: present, missing, unreadable
    \* ---- autoAssignRemoteTriggers (logicArticulationParser.ts) ----
    artSet,                 \* the input set
    startNote,              \* the startNote argument
    once,                   \* outcome of autoAssignRemoteTriggers(artSet, startNote)
    twice,                  \* outcome of applying it to the set of `once`
    \* ---- MidiHandler: the bridge connection (midiHandler.ts) ----
    wsPath,                 \* "webmidi": connectWebSocket; "wsonly": initWebSocketOnly
    ws,                     \* readyState of the socket created last
    handlerSocket,          \* this.webSocket: "null" or "ws"
    useWebSocket,           \* this.useWebSocket
    retryTimer,             \* seconds left on the reconnect timer, NoTimer when not set
    reachable,              \* TRUE while the bridge server accepts connections
    attempts,               \* connection attempts started after a close
    \* ---- findAvailablePort (midi-server.js) ----
    startPort,              \* argument startPort
    maxAttempts,            \* argument maxAttempts
    probePort,              \* local port
    probes,                 \* the ports given to isPortAvailable, with its answers
    found,                  \* how the call ended, or NoResult while it runs
    \* ---- POST /api/articulations (route.ts) ----
    request,                \* the path of the request body
    reply,                  \* the response, or NoReply
    filesRead,              \* the paths handed to readFile
    \* ---- parseLogicArticulationSet, Home.handleFileUpload ----
    document,               \* the plist document given to the parser
    parsed,                 \* outcome of parseLogicArticulationSet(document)
    assigned,               \* the set after the assignment pass, or its throw
    uploadedSets,           \* state loadedSets, as handleFileUpload fills it
    displayedSet,           \* state currentSet, as handleFileUpload sets it
    nFiles,                 \* number of files handled so far
    \* ---- MidiHandler: sockets and timers (midiHandler.ts) ----
    sockets,                \* every WebSocket created so far
    thisWebSocket,          \* this.webSocket: NoSocket or a socket
    connectTimers,          \* pending timers set by connectWebSocket's onclose
    wsReconnectTimer,       \* TRUE while the timer in wsReconnectTimer is pending
    nInitialize,            \* number of initialize() calls so far
    \* ---- track detector (LogicTrackMonitor.swift) ----
    logicElement,           \* TRUE when LogicTrackMonitor.logicElement is set
    lastLoggedFocus,        \* LogicTrackMonitor.lastLoggedFocus
    lastTrackName,          \* LogicTrackMonitor.lastTrackName
    emitted,                \* the names given to onTrackChanged, in order
    mainQueue,              \* the blocks onTrackChanged put on the main queue
    isConnected,            \* WebSocketClient.isConnected
    link,                   \* the socket task: connecting, open or down
    reconnectTimer,         \* TRUE while WebSocketClient.reconnectTimer is pending
    socketSent,             \* what was given to webSocket.send, in order
    nPolls,                 \* detector runs so far (poll timer and observer)
    nLinkEvents             \* delegate calls and reconnect timers so far

bridgeVars   == <<variant, readyState, clientType, wsClients, outbox, midiOut,
                  selectedOutPortName, midiSent, lastArticulationSetId, evt, nEvents>>
sendVars     == <<channel, webSocket, selectedOutput, call>>
resolverVars == <<currentTrack, currentSet, loadedSets, inflight, applied, nTracks,
                  catalogueRoot>>
assignVars   == <<artSet, startNote, once, twice>>
reconnectVars == <<wsPath, ws, handlerSocket, useWebSocket, retryTimer, reachable,
                   attempts>>
portVars     == <<startPort, maxAttempts, probePort, probes, found>>
loadVars     == <<request, reply, filesRead>>
parseVars    == <<document, parsed, assigned, uploadedSets, displayedSet, nFiles>>
socketVars   == <<sockets, thisWebSocket, connectTimers, wsReconnectTimer, nInitialize>>
detectorVars == <<logicElement, lastLoggedFocus, lastTrackName, emitted, mainQueue,
                  isConnected, link, reconnectTimer, socketSent, nPolls, nLinkEvents>>
vars         == <<bridgeVars, sendVars, resolverVars, assignVars, reconnectVars,
                  portVars, loadVars, parseVars, socketVars, detectorVars>>

----------------------------------------------------------------------------
(* Bounds of the model *)

MaxSessions == 2      \* sockets the server accepts
MaxEvents   == 5      \* events the server handles
MaxMessages == 2      \* messages of one sendMessages call
MaxTracks   == 3      \* trackChange events the display client receives
MaxArts     == 3      \* articulations of a sampled articulation set
MaxRetries  == 5      \* reconnect attempts counted (the count stays there)
MaxAttempts == 4      \* largest maxAttempts given to findAvailablePort
MaxSegments == 3      \* segments of a requested path
MaxSwitches == 2      \* entries of a document's Switches array
MaxEntries  == 2      \* entries of a document's Articulations array
MaxFiles    == 3      \* files handed to handleFileUpload
MaxSockets  == 3      \* WebSockets the display client creates
MaxCalls    == 2      \* calls of initialize()
MaxPolls    == 3      \* runs of the track detector
MaxLinkEvents == 4    \* events on the detector's connection

----------------------------------------------------------------------------
(* Bridge server: values *)

Sessions == 1..MaxSessions

BROWSER       == "browser"
TRACK_MONITOR == "track-monitor"

DEFAULT_WS_PORT == 7101
WS_PORT         == DEFAULT_WS_PORT
FIXED_WS_PORT   == 3001

\* The port the server listens on.
ListenPort == IF variant = 1 THEN FIXED_WS_PORT ELSE WS_PORT

NoPort  == "null"
OutPort == "IAC Driver"

\* An absent field of a JSON object (undefined), and a field that holds a string
\* where a number is expected.
Missing   == -1
Malformed == -2
Absent    == "undefined"

TrackNames == {"Violin", "Cello"}

\* The [status, data1, data2] fields of the midi messages clients send.
MidiFields ==
    { <<144, 60, 100>>, <<181, 1, 64>>,
      <<Missing, 60, 100>>, <<144, Missing, 100>>, <<144, 60, Missing>>,
      <<Malformed, 60, 100>> }

NoFields == <<Missing, Missing, Missing>>

\* Inbound payloads. json = "invalid": JSON.parse throws; "null": it returns
\* null; "object": it returns an object with the given fields.
Payload(json, type, fields, ct, tn) ==
    [json |-> json, type |-> type, fields |-> fields, clientType |-> ct, trackName |-> tn]

NoPayload == Payload("none", Absent, NoFields, Absent, Absent)

Payloads ==
    { Payload("invalid", Absent, NoFields, Absent, Absent),
      Payload("null", Absent, NoFields, Absent, Absent),
      Payload("object", Absent, NoFields, Absent, Absent),
      Payload("object", "ping", NoFields, Absent, Absent) }
    \cup { Payload("object", "midi", f, Absent, Absent) : f \in MidiFields }
    \cup { Payload("object", "identify", NoFields, ct, Absent) :
             ct \in {TRACK_MONITOR, BROWSER, Absent} }
    \cup { Payload("object", "trackChange", NoFields, Absent, tn) :
             tn \in TrackNames \cup {Absent} }

\* Messages arriving on the MIDI inputs: the port's name and three bytes.
MidiIn(name, bytes) == [name |-> name, bytes |-> bytes]

NoMidiIn == MidiIn("none", <<0, 0, 0>>)

MidiInputs ==
    { MidiIn(n, b) : n \in {"PlugSearch", "PlugSearch 2", "IAC Driver"},
                     b \in { <<160, 127, 1>>, <<163, 127, 2>>, <<160, 1, 1>>,
                             <<144, 127, 1>> } }

\* Messages the server sends.
ServerMsg(type, port, status, tn, id) ==
    [type |-> type, port |-> port, status |-> status, wsPort |-> Missing,
     trackName |-> tn, articulationSetId |-> id]

\* The wsPort field of connected and pong: the first server does not set it.
WsPortField == IF variant = 1 THEN Missing ELSE WS_PORT

ConnectedMsg ==
    [ServerMsg("connected", selectedOutPortName,
               IF midiOut THEN "ready" ELSE "no-midi", Absent, Missing)
        EXCEPT !.wsPort = WsPortField]

PongMsg ==
    [ServerMsg("pong", selectedOutPortName, Absent, Absent, Missing)
        EXCEPT !.wsPort = WsPortField]

TrackChangeMsgNamed(trackName) ==
    ServerMsg("trackChange", Absent, Absent,
              IF trackName = Absent THEN "" ELSE trackName, Missing)

TrackChangeMsg(trackName) == ServerMsg("trackChange", Absent, Absent, trackName, Missing)

ArticulationSetChangeMsg(id) ==
    ServerMsg("articulationSetChange", Absent, Absent, Absent, id)

Event(kind, s, p, m) == [kind |-> kind, session |-> s, payload |-> p, midiIn |-> m]

----------------------------------------------------------------------------
(* Bit operations on bytes, computed bit by bit *)

RECURSIVE BitAnd(_, _)
BitAnd(a, b) ==
    IF a = 0 \/ b = 0 THEN 0
    ELSE (IF a % 2 = 1 /\ b % 2 = 1 THEN 1 ELSE 0) + 2 * BitAnd(a \div 2, b \div 2)

RECURSIVE BitOr(_, _)
BitOr(a, b) ==
    IF a = 0 THEN b
    ELSE IF b = 0 THEN a
    ELSE (IF a % 2 = 1 \/ b % 2 = 1 THEN 1 ELSE 0) + 2 * BitOr(a \div 2, b \div 2)

----------------------------------------------------------------------------
(* Bridge server: operations *)

\* broadcastTrackName / broadcastArticulationSetChange: the test each member
\* of wsClients has to pass to be sent the message.
BroadcastNoRoleTest(c) == readyState[c] = "OPEN"

IsBroadcastTarget(c) == readyState[c] = "OPEN" /\ clientType[c] = BROWSER

\* wsClients.forEach(client => ... client.send(message))
BroadcastTwice(message) ==
    [c \in Sessions |->
        IF c \in wsClients /\ IsBroadcastTarget(c)
        THEN outbox[c] \o <<message, message>>
        ELSE outbox[c]]

Broadcast(message) ==
    [c \in Sessions |->
        IF c \in wsClients /\ IsBroadcastTarget(c)
        THEN Append(outbox[c], message)
        ELSE outbox[c]]

broadcastTrackName(trackName) == Broadcast(TrackChangeMsg(trackName))

broadcastArticulationSetChange(id) == Broadcast(ArticulationSetChangeMsg(id))

\* sendMidi: the array passed to midiOut.sendMessage, when an output is open.
SendMidiUnchecked(status, data1, data2) == Append(midiSent, <<status, data1, data2>>)

SendMidiChannelZero(status, data1, data2) ==
    IF midiOut THEN Append(midiSent, <<BitAnd(status, 240), data1, data2>>) ELSE midiSent

sendMidi(status, data1, data2) ==
    IF midiOut THEN Append(midiSent, <<status, data1, data2>>) ELSE midiSent

\* wss.on('connection'): the socket is OPEN, gets the default role, joins
\* wsClients and is sent the connected snapshot, all in one callback.
\* Sockets are numbered in the order of their accepts.
AcceptWithoutSnapshot(s) == outbox

AcceptReplaysTrack(s) ==
    [outbox EXCEPT ![s] = @ \o <<ConnectedMsg, TrackChangeMsg("Violin")>>]

OutboxAfterAccept(s) == [outbox EXCEPT ![s] = Append(@, ConnectedMsg)]

Accept(s) ==
    /\ nEvents < MaxEvents
    /\ readyState[s] = "NONE"
    /\ \A t \in Sessions : t < s => readyState[t] # "NONE"
    /\ readyState' = [readyState EXCEPT ![s] = "OPEN"]
    /\ clientType' = [clientType EXCEPT ![s] = BROWSER]
    /\ wsClients' = wsClients \cup {s}
    /\ outbox' = OutboxAfterAccept(s)
    /\ evt' = Event("accept", s, NoPayload, NoMidiIn)
    /\ nEvents' = nEvents + 1
    /\ UNCHANGED <<midiOut, selectedOutPortName, midiSent, lastArticulationSetId>>

\* ws.on('message'): the role the identify branch leaves the socket with.
RoleFromMessage(s, msg) ==
    IF msg.clientType = TRACK_MONITOR THEN TRACK_MONITOR ELSE BROWSER

RoleAfterIdentify(s, msg) ==
    IF msg.clientType = TRACK_MONITOR THEN TRACK_MONITOR ELSE clientType[s]

\* ws.on('message'): what the catch block of the handler does to wsClients.
CatchClosesSession(s) == wsClients \ {s}

ClientsAfterCatch(s) == wsClients

\* ws.on('message'): the trackChange branch, for a message from socket s.
TrackChangeFromMonitorOnly(s, msg) ==
    IF clientType[s] = TRACK_MONITOR THEN broadcastTrackName(msg.trackName) ELSE outbox

OutboxAfterTrackChange(s, msg) == broadcastTrackName(msg.trackName)

\* ws.on('message') for a payload p on socket s.
Message(s, p) ==
    /\ nEvents < MaxEvents
    /\ readyState[s] = "OPEN"
    /\ evt' = Event("message", s, p, NoMidiIn)
    /\ nEvents' = nEvents + 1
    /\ UNCHANGED <<readyState, midiOut, selectedOutPortName, lastArticulationSetId>>
    /\ IF p.json # "object"
       THEN \* JSON.parse throws, or msg.type throws on null: the catch block
            /\ wsClients' = ClientsAfterCatch(s)
            /\ UNCHANGED <<clientType, outbox, midiSent>>
       ELSE CASE p.type = "midi" ->
                   /\ midiSent' = sendMidi(p.fields[1], p.fields[2], p.fields[3])
                   /\ UNCHANGED <<clientType, wsClients, outbox>>
              [] p.type = "ping" ->
                   /\ outbox' = [outbox EXCEPT ![s] = Append(@, PongMsg)]
                   /\ UNCHANGED <<clientType, wsClients, midiSent>>
              [] p.type = "identify" ->
                   /\ clientType' = [clientType EXCEPT ![s] = RoleAfterIdentify(s, p)]
                   /\ UNCHANGED <<wsClients, outbox, midiSent>>
              [] p.type = "trackChange" ->
                   /\ outbox' = OutboxAfterTrackChange(s, p)
                   /\ UNCHANGED <<clientType, wsClients, midiSent>>
              [] OTHER ->
                   UNCHANGED <<clientType, wsClients, outbox, midiSent>>

\* The socket leaves the OPEN state (the peer closed or the link failed); its
\* 'close' event has not been delivered yet.
StartClose(s) ==
    /\ nEvents < MaxEvents
    /\ readyState[s] = "OPEN"
    /\ readyState' = [readyState EXCEPT ![s] = "CLOSING"]
    /\ evt' = Event("closing", s, NoPayload, NoMidiIn)
    /\ nEvents' = nEvents + 1
    /\ UNCHANGED <<clientType, wsClients, outbox, midiOut, selectedOutPortName,
                   midiSent, lastArticulationSetId>>

\* ws.on('close'): wsClients.delete(ws)
CloseKeepsSession(s) == wsClients

ClientsAfterClose(s) == wsClients \ {s}

\* ws.on('close')
Close(s) ==
    /\ nEvents < MaxEvents
    /\ readyState[s] = "CLOSING"
    /\ readyState' = [readyState EXCEPT ![s] = "CLOSED"]
    /\ wsClients' = ClientsAfterClose(s)
    /\ evt' = Event("close", s, NoPayload, NoMidiIn)
    /\ nEvents' = nEvents + 1
    /\ UNCHANGED <<clientType, outbox, midiOut, selectedOutPortName, midiSent,
                   lastArticulationSetId>>

\* A listener that takes every PlugSearch id as a change.
IdAlwaysChanged(articulationSetId) == TRUE

\* articulationSetId !== lastArticulationSetId.
IdChanged(articulationSetId) == articulationSetId # lastArticulationSetId

\* The listener initMidi connects to every MIDI input.
MidiInput(m) ==
    /\ nEvents < MaxEvents
    /\ evt' = Event("midiIn", 0, NoPayload, m)
    /\ nEvents' = nEvents + 1
    /\ UNCHANGED <<readyState, clientType, wsClients, midiOut, selectedOutPortName,
                   midiSent>>
    /\ IF /\ m.name = "PlugSearch"
          /\ BitAnd(m.bytes[1], 240) = 160
          /\ m.bytes[2] = 127
          /\ IdChanged(m.bytes[3])
       THEN /\ lastArticulationSetId' = m.bytes[3]
            /\ outbox' = broadcastArticulationSetChange(m.bytes[3])
       ELSE UNCHANGED <<lastArticulationSetId, outbox>>

\* State after initMidi and startServer: no socket yet; the output port was
\* found and opened, found but not opened, or not found.
BridgeStart(v) ==
    /\ variant = v
    /\ readyState = [s \in Sessions |-> "NONE"]
    /\ clientType = [s \in Sessions |-> Absent]
    /\ wsClients = {}
    /\ outbox = [s \in Sessions |-> <<>>]
    /\ midiOut \in BOOLEAN
    /\ selectedOutPortName \in {NoPort, OutPort}
    /\ midiOut => selectedOutPortName = OutPort
    /\ midiSent = <<>>
    /\ lastArticulationSetId = Missing
    /\ evt = Event("init", 0, NoPayload, NoMidiIn)
    /\ nEvents = 0

InitBridge == BridgeStart(2)

InitBridgeFirst == BridgeStart(1)

BridgeOnly ==
    UNCHANGED <<variant, sendVars, resolverVars, assignVars, reconnectVars, portVars, loadVars,
                parseVars, socketVars, detectorVars>>

NextBridge ==
    \/ \E s \in Sessions : Accept(s) /\ BridgeOnly
    \/ \E s \in Sessions, p \in Payloads : Message(s, p) /\ BridgeOnly
    \/ \E s \in Sessions : StartClose(s) /\ BridgeOnly
    \/ \E s \in Sessions : Close(s) /\ BridgeOnly
    \/ \E m \in MidiInputs : MidiInput(m) /\ BridgeOnly

----------------------------------------------------------------------------
(* MidiHandler: setChannel and sendMessages *)

MidiMessage(status, data1, data2) == [status |-> status, data1 |-> data1, data2 |-> data2]

\* Arguments of sendMessages: every one-message list over the status bytes
\* 0x80..0xFF, and the lists of up to MaxMessages messages over a few bytes.
StatusBytes == 128..255

SampleMessages ==
    { MidiMessage(144, 60, 100), MidiMessage(181, 1, 64), MidiMessage(240, 0, 0),
      MidiMessage(60, 0, 0) }

RECURSIVE ListsUpTo(_, _)
ListsUpTo(S, n) ==
    IF n = 0 THEN { <<>> }
    ELSE LET shorter == ListsUpTo(S, n - 1)
         IN  shorter \cup { Append(l, x) : l \in shorter, x \in S }

MessageLists ==
    { << MidiMessage(s, 60, 100) >> : s \in StatusBytes }
    \cup ListsUpTo(SampleMessages, MaxMessages)

\* Arguments of setChannel.
ChannelArgs == -2..18

Min(a, b) == IF a < b THEN a ELSE b
Max(a, b) == IF a > b THEN a ELSE b

NoCall == [active |-> FALSE, messages |-> <<>>, useGlobalChannel |-> FALSE,
           viaWebSocket |-> <<>>, viaWebMidi |-> <<>>, failedAt |-> 0,
           result |-> FALSE]

\* setChannel
setChannel(c) ==
    /\ call = NoCall
    /\ channel' = Max(0, Min(15, c))
    /\ UNCHANGED <<webSocket, selectedOutput, call>>

\* The status byte sendMessages transmits for msg.status.
StatusOverridingSystem(status, useGlobalChannel) ==
    IF useGlobalChannel /\ status >= 128
    THEN BitOr(BitAnd(status, 240), channel)
    ELSE status

TransmittedStatus(status, useGlobalChannel) ==
    IF useGlobalChannel /\ status >= 128 /\ status < 240
    THEN BitOr(BitAnd(status, 240), channel)
    ELSE status

Transmitted(msg, useGlobalChannel) ==
    << TransmittedStatus(msg.status, useGlobalChannel), msg.data1, msg.data2 >>

\* A loop that goes on after the send that threw.
SentDespiteError(all, failAt) ==
    SubSeq(all, 1, failAt - 1) \o SubSeq(all, failAt + 1, Len(all))

\* The Web MIDI loop when selectedOutput.send throws at message failAt: the
\* catch returns, so the messages before failAt were sent and no other.
SentBeforeError(all, failAt) == SubSeq(all, 1, failAt - 1)

\* sendMessages(messages, useGlobalChannel). On the Web MIDI path
\* selectedOutput.send throws at message failAt (0: it never throws).
sendMessages(messages, useGlobalChannel, failAt) ==
    /\ call = NoCall
    /\ UNCHANGED <<channel, webSocket, selectedOutput>>
    /\ LET all == [i \in 1..Len(messages) |-> Transmitted(messages[i], useGlobalChannel)]
           base == [NoCall EXCEPT !.active = TRUE, !.messages = messages,
                                  !.useGlobalChannel = useGlobalChannel]
       IN  IF webSocket = "OPEN"
           THEN /\ failAt = 0
                /\ call' = [base EXCEPT !.viaWebSocket = all, !.result = TRUE]
           ELSE IF selectedOutput = "null"
           THEN /\ failAt = 0
                /\ call' = [base EXCEPT !.result = FALSE]
           ELSE IF failAt = 0
           THEN call' = [base EXCEPT !.viaWebMidi = all, !.result = TRUE]
           ELSE call' = [base EXCEPT !.viaWebMidi = SentBeforeError(all, failAt),
                                     !.failedAt = failAt,
                                     !.result = FALSE]

\* sendMessages has returned.
Return ==
    /\ call # NoCall
    /\ call' = NoCall
    /\ UNCHANGED <<channel, webSocket, selectedOutput>>

\* The bridge socket: initWebSocketOnly stores the new socket at once,
\* connectWebSocket stores it in onopen and clears it in onclose.
SocketChange ==
    /\ call = NoCall
    /\ \/ webSocket \in {"null", "CLOSED"} /\ webSocket' \in {"CONNECTING", "OPEN"}
       \/ webSocket = "CONNECTING" /\ webSocket' \in {"OPEN", "CLOSED"}
       \/ webSocket = "OPEN" /\ webSocket' \in {"null", "CLOSED"}
    /\ UNCHANGED <<channel, selectedOutput, call>>

\* autoSelectOutput / selectOutput
OutputChange ==
    /\ call = NoCall
    /\ selectedOutput' \in {"null", "output"} \ {selectedOutput}
    /\ UNCHANGED <<channel, webSocket, call>>

InitSend ==
    /\ channel = 0
    /\ webSocket = "null"
    /\ selectedOutput = "null"
    /\ call = NoCall

SendOnly ==
    UNCHANGED <<bridgeVars, resolverVars, assignVars, reconnectVars, portVars, loadVars,
                parseVars, socketVars, detectorVars>>

NextSend ==
    \/ \E c \in ChannelArgs : setChannel(c) /\ SendOnly
    \/ /\ call = NoCall
       /\ \E ms \in MessageLists, g \in BOOLEAN, k \in 0..MaxMessages :
              k <= Len(ms) /\ sendMessages(ms, g, k) /\ SendOnly
    \/ Return /\ SendOnly
    \/ SocketChange /\ SendOnly
    \/ OutputChange /\ SendOnly

----------------------------------------------------------------------------
(* Strings, as sequences of characters *)

UpperToLower ==
    [ch \in {"A", "C", "D", "S", "V"} |->
        CASE ch = "A" -> "a" [] ch = "C" -> "c" [] ch = "D" -> "d"
          [] ch = "S" -> "s" [] ch = "V" -> "v"]

\* String.prototype.toLowerCase
toLowerCase(s) ==
    [i \in 1..Len(s) |-> IF s[i] \in DOMAIN UpperToLower THEN UpperToLower[s[i]] ELSE s[i]]

\* String.prototype.includes
includes(s, sub) ==
    \E i \in 1..(Len(s) + 1) :
        /\ i + Len(sub) - 1 <= Len(s)
        /\ SubSeq(s, i, i + Len(sub) - 1) = sub

Str_violin     == <<"v", "i", "o", "l", "i", "n">>
Str_Violin     == <<"V", "i", "o", "l", "i", "n">>
Str_strings    == <<"s", "t", "r", "i", "n", "g", "s">>
Str_Viol       == <<"V", "i", "o", "l">>
Str_Legato     == <<"L", "e", "g", "a", "t", "o">>
Str_CelloDir   == <<"C", "e", "l", "l", "o", "/">>
Str_Violin1    == <<"V", "i", "o", "l", "i", "n", " ", "1">>
Str_Cello      == <<"C", "e", "l", "l", "o">>
Str_Viola      == <<"V", "i", "o", "l", "a">>
Str_Stradivari == <<"S", "t", "r", "a", "d", "i", "v", "a", "r", "i", " ",
                    "V", "i", "o", "l", "i", "n">>
Str_Violin1Solo == <<"V", "i", "o", "l", "i", "n", " ", "1", " ", "S", "o", "l", "o">>
Str_ACCello    == <<"A", "C", " ", "C", "e", "l", "l", "o">>
Str_Strings    == <<"S", "t", "r", "i", "n", "g", "s", "/">>
Str_plist      == <<".", "p", "l", "i", "s", "t">>
Str_Demo       == <<"D", "e", "m", "o", " ", "S", "t", "r", "i", "n", "g", "s">>

----------------------------------------------------------------------------
(* The articulation-set catalogue (api/articulations) *)

\* A file of the catalogue: its directory below the root, its name without
\* the extension, and the name of the set parseLogicArticulationSet makes of
\* its content (NoName when the content does not parse).
NoName == <<>>

CatalogueFile(dir, name, setName) == [dir |-> dir, name |-> name, setName |-> setName]

\* "Stradivari Violin.plist" holds the Name "Violin"; the content of
\* "Strings/Violin 1 Solo.plist" has no root dict; the other sets are named
\* after their files, "AC Cello" without its upper-case prefix.
Catalogue ==
    << CatalogueFile(<<>>, Str_Stradivari, Str_Violin),
       CatalogueFile(Str_Strings, Str_Violin1Solo, NoName),
       CatalogueFile(Str_CelloDir, Str_Legato, Str_Legato),
       CatalogueFile(<<>>, Str_ACCello, Str_Cello),
       CatalogueFile(<<>>, Str_Viol, Str_Viol) >>

PathOf(f) == f.dir \o f.name \o Str_plist

\* The state of the catalogue's root directory.
CatalogueRoots == {"present", "missing", "unreadable"}

\* findPlistFiles(ART_CONDUCTOR_DIR): whether the call rejects, and the files
\* it resolves with.  readdir rejects for a missing or unreadable directory.
findPlistFilesRethrows(root) ==
    [threw |-> root # "present", files |-> IF root = "present" THEN Catalogue ELSE <<>>]

findPlistFiles(root) ==
    [threw |-> FALSE, files |-> IF root = "present" THEN Catalogue ELSE <<>>]

\* The filter of GET: the files whose name or path contains the lower-cased
\* search term, in the order findPlistFiles lists them.
Listing(files, search) ==
    LET term == toLowerCase(search)
        Hit(f) == \/ includes(toLowerCase(f.name), term)
                  \/ includes(toLowerCase(PathOf(f)), term)
    IN  IF term = <<>> THEN files ELSE SelectSeq(files, Hit)

\* The response of GET: {sets, total} with status 200, or {error} with
\* status 500 from its catch block.
SearchReply(root, search) ==
    LET scan == findPlistFiles(root)
    IN  IF scan.threw
        THEN [status |-> 500, hasSets |-> FALSE, sets |-> <<>>]
        ELSE [status |-> 200, hasSets |-> TRUE, sets |-> Listing(scan.files, search)]

\* GET over the catalogue: the sets of the response when the root is there.
GET(search) == Listing(Catalogue, search)

----------------------------------------------------------------------------
(* Home: the onTrackName handler *)

\* Track names the bridge delivers.
ResolverTracks == { Str_violin, Str_Violin1, Str_Cello, Str_Viola, Str_strings }

NoFile == CatalogueFile(<<>>, <<>>, NoName)

Run(id, track, phase, best) == [id |-> id, track |-> track, phase |-> phase, best |-> best]

Step(kind, track, set) == [kind |-> kind, track |-> track, set |-> set]

\* The cache check: the first cached set whose name contains the track name
\* or is contained in it, ignoring case.
CacheHitForward(name, trackName) ==
    includes(toLowerCase(name), toLowerCase(trackName))

CacheHit(name, trackName) ==
    \/ includes(toLowerCase(name), toLowerCase(trackName))
    \/ includes(toLowerCase(trackName), toLowerCase(name))

\* The names sets of the catalogue get, and the cache test for every such
\* name and every track name.
SetNames == { Catalogue[i].setName : i \in 1..Len(Catalogue) } \ {NoName}

CacheHitOf == [name \in SetNames, trackName \in ResolverTracks |-> CacheHit(name, trackName)]

CacheHits(trackName) ==
    SelectSeq(loadedSets, LAMBDA name : CacheHitOf[name, trackName])

\* The best match among the sets a search returned.
BestMatchFirst(sets, trackName) == Head(sets)

BestMatch(sets, trackName) ==
    LET exact == SelectSeq(sets, LAMBDA f :
                     includes(toLowerCase(f.name), toLowerCase(trackName)))
    IN  IF exact # <<>> THEN Head(exact) ELSE Head(sets)

\* The reply of GET and the handler's best match, for every track name.
Searches == [trackName \in ResolverTracks |-> GET(trackName)]

BestOf ==
    [trackName \in ResolverTracks |->
        IF Searches[trackName] = <<>> THEN NoFile
        ELSE BestMatch(Searches[trackName], trackName)]

\* The response of GET for every state of the root and every track name.
Replies ==
    [root \in CatalogueRoots, trackName \in ResolverTracks |-> SearchReply(root, trackName)]

\* new Map(prev).set(name, ...): a new key goes last, a known key stays.
MapSet(map, name) ==
    IF \E i \in 1..Len(map) : map[i] = name THEN map ELSE Append(map, name)

\* The callback given to midiHandler.onTrackName, up to its first await.
TrackName(t) ==
    /\ nTracks < MaxTracks
    /\ nTracks' = nTracks + 1
    /\ UNCHANGED catalogueRoot
    /\ currentTrack' = t
    /\ IF CacheHits(t) # <<>>
       THEN /\ currentSet' = Head(CacheHits(t))
            /\ applied' = Step("cached", t, Head(CacheHits(t)))
            /\ UNCHANGED <<loadedSets, inflight>>
       ELSE /\ inflight' = inflight \cup {Run(nTracks + 1, t, "search", NoFile)}
            /\ applied' = Step("started", t, NoName)
            /\ UNCHANGED <<currentSet, loadedSets>>

\* What the handler displays when the search gave it nothing: it only logs.
FallbackToDemo == Str_Demo

SetAfterNoMatch == currentSet

\* The search fetch of run r settles: with the response of GET (ok), or the
\* fetch rejects (the catch block).  A response without sets takes the else
\* branch, as one with an empty list does.
SearchDone(r, ok) ==
    /\ r \in inflight
    /\ r.phase = "search"
    /\ LET data == Replies[catalogueRoot, r.track]
           sets == IF ok /\ data.hasSets THEN data.sets ELSE <<>>
       IN  IF sets # <<>>
           THEN /\ inflight' = (inflight \ {r})
                       \cup {Run(r.id, r.track, "load", BestOf[r.track])}
                /\ applied' = Step("found", r.track, BestOf[r.track].name)
                /\ UNCHANGED currentSet
           ELSE /\ inflight' = inflight \ {r}
                /\ applied' = Step(IF ok THEN "none" ELSE "error", r.track, NoName)
                /\ currentSet' = SetAfterNoMatch
    /\ UNCHANGED <<currentTrack, loadedSets, nTracks, catalogueRoot>>

\* The load fetch of run r settles: with the file's content (ok), or the
\* fetch rejects or the reply carries no content.
LoadDone(r, ok) ==
    /\ r \in inflight
    /\ r.phase = "load"
    /\ inflight' = inflight \ {r}
    /\ IF ok /\ r.best.setName # NoName
       THEN /\ loadedSets' = MapSet(loadedSets, r.best.setName)
            /\ currentSet' = r.best.setName
            /\ applied' = Step("loaded", r.track, r.best.setName)
       ELSE /\ applied' = Step("failed", r.track, NoName)
            /\ UNCHANGED <<currentSet, loadedSets>>
    /\ UNCHANGED <<currentTrack, nTracks, catalogueRoot>>

InitResolver ==
    /\ currentTrack = <<>>
    /\ currentSet = Str_Demo
    /\ loadedSets = <<>>
    /\ inflight = {}
    /\ applied = Step("init", <<>>, NoName)
    /\ nTracks = 0
    /\ catalogueRoot \in CatalogueRoots

ResolverOnly ==
    UNCHANGED <<bridgeVars, sendVars, assignVars, reconnectVars, portVars, loadVars,
                parseVars, socketVars, detectorVars>>

NextResolver ==
    \/ \E t \in ResolverTracks : TrackName(t) /\ ResolverOnly
    \/ \E r \in inflight, ok \in BOOLEAN : SearchDone(r, ok) /\ ResolverOnly
    \/ \E r \in inflight, ok \in BOOLEAN : LoadDone(r, ok) /\ ResolverOnly

----------------------------------------------------------------------------
(* autoAssignRemoteTriggers, hasUnassignedRemotes, countAutoAssignedRemotes *)

MaxNote == 127
NoteOn  == 144

\* art.remoteTrigger: undefined (NoTrigger) or {status, data1, isAutoAssigned}.
RemoteTrigger(status, data1, auto) ==
    [present |-> TRUE, status |-> status, data1 |-> data1, isAutoAssigned |-> auto]

NoTrigger == [present |-> FALSE, status |-> 0, data1 |-> 0, isAutoAssigned |-> FALSE]

Articulation(id, trigger) == [id |-> id, remoteTrigger |-> trigger]

ArticulationSet(arts) == [name |-> Str_Cello, articulations |-> arts]

\* Remote triggers of the sampled sets: notes at both ends of the range,
\* Note On and Control Change, set by a switch or by the parser's fallback.
TriggerSamples ==
    { NoTrigger,
      RemoteTrigger(NoteOn, 0, FALSE), RemoteTrigger(NoteOn, 1, FALSE),
      RemoteTrigger(176, 2, FALSE), RemoteTrigger(NoteOn, 126, FALSE),
      RemoteTrigger(NoteOn, 127, FALSE),
      RemoteTrigger(NoteOn, 0, TRUE), RemoteTrigger(NoteOn, 127, TRUE) }

RECURSIVE TriggerLists(_)
TriggerLists(n) ==
    IF n = 0 THEN { <<>> }
    ELSE LET shorter == TriggerLists(n - 1)
         IN  shorter \cup { Append(l, x) : l \in shorter, x \in TriggerSamples }

WithIds(triggers) == [i \in 1..Len(triggers) |-> Articulation(i, triggers[i])]

\* The set whose switches use every note 0..127, plus one articulation
\* without a remote trigger.
FullSet ==
    ArticulationSet(
        [i \in 1..(MaxNote + 2) |->
            Articulation(i, IF i <= MaxNote + 1
                            THEN RemoteTrigger(NoteOn, i - 1, FALSE)
                            ELSE NoTrigger)])

InputSets == { ArticulationSet(WithIds(l)) : l \in TriggerLists(MaxArts) } \cup {FullSet}

StartNotes == {-1, 0, 1, 126, 127, 128}

Outcome(status, set) == [status |-> status, set |-> set]

NoOutcome == Outcome("none", ArticulationSet(<<>>))
Threw     == Outcome("threw", ArticulationSet(<<>>))

\* The notes collected into usedNotes before the pass.
AllTriggerNotes(arts) ==
    { arts[i].remoteTrigger.data1 : i \in { j \in 1..Len(arts) : arts[j].remoteTrigger.present } }

UsedNotes(arts) ==
    { arts[i].remoteTrigger.data1 :
        i \in { j \in 1..Len(arts) :
                  arts[j].remoteTrigger.present /\ ~arts[j].remoteTrigger.isAutoAssigned } }

\* The while loop of getNextAvailableNote: the first value from nextNote on
\* that is not in usedNotes or is above 127.
SkipUsed(usedNotes, nextNote) ==
    IF nextNote > MaxNote THEN nextNote
    ELSE CHOOSE n \in nextNote..(MaxNote + 1) :
            /\ ~(n \in usedNotes /\ n <= MaxNote)
            /\ \A m \in nextNote..(n - 1) : m \in usedNotes /\ m <= MaxNote

\* The test of the map callback that returns art as it is.
KeepsNone(art) == FALSE

Keeps(art) == art.remoteTrigger.present

\* One call of the map callback on art, in a closure state st = usedNotes,
\* nextNote, the articulations mapped so far, and whether a call has thrown.
MapStep(st, art) ==
    IF st.threw THEN st
    ELSE IF Keeps(art)
    THEN [usedNotes |-> st.usedNotes, nextNote |-> st.nextNote,
          done |-> Append(st.done, art), threw |-> FALSE]
    ELSE LET note == SkipUsed(st.usedNotes, st.nextNote)
         IN  IF note > MaxNote
             THEN [usedNotes |-> st.usedNotes, nextNote |-> note,
                   done |-> st.done, threw |-> TRUE]
             ELSE [usedNotes |-> st.usedNotes \cup {note},
                   nextNote  |-> note + 1,
                   done      |-> Append(st.done, [art EXCEPT
                                   !.remoteTrigger = RemoteTrigger(NoteOn, note, TRUE)]),
                   threw     |-> FALSE]

\* artSet.articulations.map(...): the callback applied to arts[lo..hi] in
\* index order, from closure state st.
RECURSIVE MapRange(_, _, _, _)
MapRange(st, arts, lo, hi) ==
    IF lo > hi THEN st
    ELSE IF lo = hi THEN MapStep(st, arts[lo])
    ELSE LET mid == (lo + hi) \div 2
             left == MapRange(st, arts, lo, mid)
         IN  IF left.threw THEN left ELSE MapRange(left, arts, mid + 1, hi)

MapState(arts, start) ==
    MapRange([usedNotes |-> UsedNotes(arts), nextNote |-> start,
              done |-> <<>>, threw |-> FALSE],
             arts, 1, Len(arts))

autoAssignRemoteTriggers(set, start) ==
    LET st == MapState(set.articulations, start)
    IN  IF st.threw THEN Threw
        ELSE Outcome("returned", [set EXCEPT !.articulations = st.done])

hasUnassignedRemotes(set) ==
    \E i \in 1..Len(set.articulations) : ~set.articulations[i].remoteTrigger.present

countAutoAssignedRemotes(set) ==
    Cardinality({ i \in 1..Len(set.articulations) :
                    /\ set.articulations[i].remoteTrigger.present
                    /\ set.articulations[i].remoteTrigger.isAutoAssigned })

\* autoAssignRemoteTriggers(artSet, startNote)
Assign ==
    /\ once = NoOutcome
    /\ once' = autoAssignRemoteTriggers(artSet, startNote)
    /\ UNCHANGED <<artSet, startNote, twice>>

\* autoAssignRemoteTriggers applied to the set the first call returned.
AssignAgain(start) ==
    /\ once.status = "returned"
    /\ twice = NoOutcome
    /\ twice' = autoAssignRemoteTriggers(once.set, start)
    /\ UNCHANGED <<artSet, startNote, once>>

InitAssign ==
    /\ artSet \in InputSets
    /\ startNote \in StartNotes
    /\ once = NoOutcome
    /\ twice = NoOutcome

AssignOnly ==
    UNCHANGED <<bridgeVars, sendVars, resolverVars, reconnectVars, portVars, loadVars,
                parseVars, socketVars, detectorVars>>

NextAssign ==
    \/ Assign /\ AssignOnly
    \/ \E start \in StartNotes : AssignAgain(start) /\ AssignOnly

----------------------------------------------------------------------------
(* MidiHandler: the bridge connection, connectWebSocket / initWebSocketOnly *)

NoTimer == -1

\* The delay, in seconds, of the timer the onclose handler sets.
GivesUpAfterFirstRetry(path) ==
    IF attempts >= 1 THEN NoTimer ELSE IF path = "webmidi" THEN 5 ELSE 3

ReconnectDelay(path) == IF path = "webmidi" THEN 5 ELSE 3

\* ws.onopen
onopen ==
    /\ ws = "CONNECTING"
    /\ reachable
    /\ ws' = "OPEN"
    /\ IF wsPath = "webmidi"
       THEN handlerSocket' = "ws" /\ UNCHANGED useWebSocket
       ELSE useWebSocket' = TRUE /\ UNCHANGED handlerSocket
    /\ UNCHANGED <<wsPath, retryTimer, reachable, attempts>>

\* ws.onclose: the field updates and the reconnect timer.
onclose ==
    /\ ws' = "CLOSED"
    /\ IF wsPath = "webmidi"
       THEN handlerSocket' = "null" /\ UNCHANGED useWebSocket
       ELSE useWebSocket' = FALSE /\ UNCHANGED handlerSocket
    /\ retryTimer' = ReconnectDelay(wsPath)
    /\ UNCHANGED <<wsPath, reachable, attempts>>

\* The attempt fails, the server being unreachable: onerror, then onclose.
ConnectFails ==
    /\ ws = "CONNECTING"
    /\ ~reachable
    /\ onclose

\* The open connection closes.
ConnectionCloses ==
    /\ ws = "OPEN"
    /\ onclose

\* A second passes on the reconnect timer.
Tick ==
    /\ retryTimer > 0
    /\ retryTimer' = retryTimer - 1
    /\ UNCHANGED <<wsPath, ws, handlerSocket, useWebSocket, reachable, attempts>>

\* The timer's callback: connectWebSocket() or initWebSocketOnly() again.
Retry ==
    /\ retryTimer = 0
    /\ retryTimer' = NoTimer
    /\ ws' = "CONNECTING"
    /\ handlerSocket' = IF wsPath = "wsonly" THEN "ws" ELSE handlerSocket
    /\ attempts' = Min(attempts + 1, MaxRetries)
    /\ UNCHANGED <<wsPath, useWebSocket, reachable>>

\* The bridge server starts or stops accepting connections.
ServerChange ==
    /\ reachable' = ~reachable
    /\ UNCHANGED <<wsPath, ws, handlerSocket, useWebSocket, retryTimer, attempts>>

\* initialize() has started the first attempt on one of the two paths.
InitReconnect ==
    /\ wsPath \in {"webmidi", "wsonly"}
    /\ ws = "CONNECTING"
    /\ handlerSocket = IF wsPath = "wsonly" THEN "ws" ELSE "null"
    /\ useWebSocket = FALSE
    /\ retryTimer = NoTimer
    /\ reachable \in BOOLEAN
    /\ attempts = 0

ReconnectOnly ==
    UNCHANGED <<bridgeVars, sendVars, resolverVars, assignVars, portVars, loadVars,
                parseVars, socketVars, detectorVars>>

NextReconnect ==
    \/ onopen /\ ReconnectOnly
    \/ ConnectFails /\ ReconnectOnly
    \/ ConnectionCloses /\ ReconnectOnly
    \/ Tick /\ ReconnectOnly
    \/ Retry /\ ReconnectOnly
    \/ ServerChange /\ ReconnectOnly

\* The browser delivers the socket's events and runs due timers.
FairReconnect ==
    /\ WF_vars(onopen /\ ReconnectOnly)
    /\ WF_vars(ConnectFails /\ ReconnectOnly)
    /\ WF_vars(Tick /\ ReconnectOnly)
    /\ WF_vars(Retry /\ ReconnectOnly)

----------------------------------------------------------------------------
(* findAvailablePort *)

MACOS_RESERVED_PORTS == {3000, 5000, 7000}

StartPorts == {2998, 2999, 3000, 3001, 4999, 5000, 6999, 7000, DEFAULT_WS_PORT}

PortResult(status, p) == [status |-> status, port |-> p]

NoResult == PortResult("running", 0)

\* while (MACOS_RESERVED_PORTS.includes(port)) port++
NoSkip(p) == p

RECURSIVE SkipReserved(_)
SkipReserved(p) ==
    IF p \in MACOS_RESERVED_PORTS THEN SkipReserved(p + 1) ELSE p

\* One turn of the for loop: isPortAvailable answers available.
Probe(available) ==
    /\ found = NoResult
    /\ Len(probes) < maxAttempts
    /\ LET p == SkipReserved(probePort)
       IN  /\ probes' = Append(probes, <<p, available>>)
           /\ IF available
              THEN found' = PortResult("returned", p) /\ probePort' = p
              ELSE found' = found /\ probePort' = p + 1
    /\ UNCHANGED <<startPort, maxAttempts>>

\* The loop ends without an available port: throw.
GiveUp ==
    /\ found = NoResult
    /\ Len(probes) >= maxAttempts
    /\ found' = PortResult("threw", 0)
    /\ UNCHANGED <<startPort, maxAttempts, probePort, probes>>

InitPort ==
    /\ startPort \in StartPorts
    /\ maxAttempts \in 0..MaxAttempts
    /\ probePort = startPort
    /\ probes = <<>>
    /\ found = NoResult

PortOnly ==
    UNCHANGED <<bridgeVars, sendVars, resolverVars, assignVars, reconnectVars, loadVars,
                parseVars, socketVars, detectorVars>>

NextPort ==
    \/ \E available \in BOOLEAN : Probe(available) /\ PortOnly
    \/ GiveUp /\ PortOnly

----------------------------------------------------------------------------
(* POST /api/articulations: loading a catalogue file *)

Seg_up   == <<".", ".">>
Seg_dot  == <<".">>
Seg_h    == <<"h">>
Seg_Art  == <<"A", "r", "t">>
Seg_Art2 == <<"A", "r", "t", "2">>
Seg_a    == <<"a">>

\* The root directory /h/Art, and the segments request paths are made of;
\* /h/Art2 is a sibling directory whose name begins with the root's name.
RootSegments == << Seg_h, Seg_Art >>

Segments == { Seg_up, Seg_dot, Seg_h, Seg_Art, Seg_Art2, Seg_a }

\* The request paths, split at "/"; the empty sequence is the empty string.
RequestPaths == ListsUpTo(Segments, MaxSegments)

\* An absolute path as a string.
RECURSIVE Render(_)
Render(segs) ==
    IF segs = <<>> THEN <<>> ELSE <<"/">> \o Head(segs) \o Render(Tail(segs))

\* path.normalize on the segments of an absolute path.
RECURSIVE NormalizeOnto(_, _)
NormalizeOnto(done, segs) ==
    IF segs = <<>> THEN done
    ELSE LET s == Head(segs)
         IN  IF s = Seg_up
             THEN NormalizeOnto(IF done = <<>> THEN done
                                ELSE SubSeq(done, 1, Len(done) - 1), Tail(segs))
             ELSE IF s = Seg_dot \/ s = <<>>
             THEN NormalizeOnto(done, Tail(segs))
             ELSE NormalizeOnto(Append(done, s), Tail(segs))

\* path.join(ART_CONDUCTOR_DIR, path), as segments.
join(root, path) == NormalizeOnto(<<>>, root \o path)

ART_CONDUCTOR_DIR == Render(RootSegments)

\* String.prototype.startsWith
startsWith(s, prefix) ==
    Len(prefix) <= Len(s) /\ SubSeq(s, 1, Len(prefix)) = prefix

LoadReply(status, error) == [status |-> status, error |-> error]

NoReply == LoadReply(0, "none")

\* POST with body {path}; readFile finds the file (exists) or rejects.
POST(exists) ==
    /\ reply = NoReply
    /\ UNCHANGED request
    /\ IF request = <<>>
       THEN /\ reply' = LoadReply(400, "Path required")
            /\ UNCHANGED filesRead
       ELSE LET fullPath == Render(join(RootSegments, request))
            IN  IF ~startsWith(fullPath, ART_CONDUCTOR_DIR)
                THEN /\ reply' = LoadReply(400, "Invalid path")
                     /\ UNCHANGED filesRead
                ELSE /\ filesRead' = Append(filesRead, fullPath)
                     /\ reply' = IF exists THEN LoadReply(200, "none")
                                 ELSE LoadReply(500, "Failed to load articulation set")

InitLoad ==
    /\ request \in RequestPaths
    /\ reply = NoReply
    /\ filesRead = <<>>

LoadOnly ==
    UNCHANGED <<bridgeVars, sendVars, resolverVars, assignVars, reconnectVars, portVars,
                parseVars, socketVars, detectorVars>>

NextLoad ==
    \E exists \in BOOLEAN : POST(exists) /\ LoadOnly

----------------------------------------------------------------------------
(* The bridge server and one display client's MidiHandler side by side, the *)
(* server receiving midi messages only                                      *)

WellFormedMidi ==
    { Payload("object", "midi", f, Absent, Absent) : f \in { <<144, 60, 100>>, <<181, 1, 64>> } }

OneMessageLists == { << MidiMessage(144, 60, 100) >>, << MidiMessage(181, 1, 64) >> }

NextSending ==
    \/ \E s \in Sessions : Accept(s) /\ BridgeOnly
    \/ \E s \in Sessions, p \in WellFormedMidi : Message(s, p) /\ BridgeOnly
    \/ /\ call = NoCall
       /\ \E ms \in OneMessageLists, g \in BOOLEAN, k \in 0..1 :
              sendMessages(ms, g, k) /\ SendOnly
    \/ Return /\ SendOnly
    \/ SocketChange /\ SendOnly
    \/ OutputChange /\ SendOnly

----------------------------------------------------------------------------
(* parseLogicArticulationSet *)

\* A key of a plist dict: Undefined when the dict has no such key, else the
\* value under it.
Undefined == <<>>

Defined(v) == <<v>>

\* The Output dict of an articulation entry, a Switches entry, and an
\* Articulations entry.  The documents carry upper-case keys and no CC list.
OutputSettings(mb1, status, valueLow, note, velocity) ==
    [MB1 |-> mb1, Status |-> status, ValueLow |-> valueLow, Note |-> note,
     Velocity |-> velocity]

NoOutput == OutputSettings(Undefined, Undefined, Undefined, Undefined, Undefined)

SwitchData(id, mb1, status) == [ID |-> id, MB1 |-> mb1, Status |-> status]

ArtData(id, output) == [ID |-> id, Output |-> output]

\* root: the content has a plist > dict element.  Name: the set's name, one
\* that the two replace calls leave as it is.
Document(root, name, switches, arts) ==
    [root |-> root, Name |-> name, Switches |-> switches, Articulations |-> arts]

\* field || fallback, for a number and for a string.
OrNumber(field, fallback) ==
    IF field = Undefined THEN fallback
    ELSE IF field[1] = 0 THEN fallback ELSE field[1]

OrString(field, fallback) ==
    IF field = Undefined THEN fallback
    ELSE IF field[1] = "" THEN fallback ELSE field[1]

\* x !== undefined && x >= 0 && x <= 127
InNoteRange(field) ==
    IF field = Undefined THEN FALSE ELSE field[1] >= 0 /\ field[1] <= MaxNote

\* The status byte of a Status string.
StatusByte(statusStr) ==
    IF statusStr = "Note On" THEN 144
    ELSE IF statusStr = "Control Change" THEN 176
    ELSE IF statusStr = "Poly Pressure" THEN 160
    ELSE 144

\* midiMessages: the MB1 message, then the Note message.
OutputMessages(outputSettings) ==
    (IF InNoteRange(outputSettings.MB1)
     THEN << MidiMessage(StatusByte(OrString(outputSettings.Status, "Note On")),
                         outputSettings.MB1[1],
                         OrNumber(outputSettings.ValueLow, 127)) >>
     ELSE <<>>)
    \o
    (IF InNoteRange(outputSettings.Note)
     THEN << MidiMessage(144, outputSettings.Note[1],
                         OrNumber(outputSettings.Velocity, 127)) >>
     ELSE <<>>)

\* switchesMap.get(key): the last entry of the Switches array whose ID is the
\* key, entries without an ID left out.
switchesMapGet(switches, key) ==
    LET at == { i \in 1..Len(switches) : switches[i].ID # Undefined /\ switches[i].ID = key }
    IN  IF key = Undefined \/ at = {} THEN Undefined
        ELSE Defined(switches[CHOOSE i \in at : \A j \in at : j <= i])

\* artData['ID'] || artData['id']
ArtId(artData) ==
    IF artData.ID = Undefined THEN Undefined
    ELSE IF artData.ID[1] = 0 THEN Undefined ELSE artData.ID

\* The remote trigger the switch lookup leaves.
SwitchTrigger(switchData) ==
    IF switchData = Undefined THEN NoTrigger
    ELSE IF InNoteRange(switchData[1].MB1)
    THEN RemoteTrigger(StatusByte(OrString(switchData[1].Status, "Note On")),
                       switchData[1].MB1[1], FALSE)
    ELSE NoTrigger

\* The fallback after the switch lookup: a trigger on the output's MB1.
FallbackTrigger(remoteTrigger, outputSettings) ==
    LET mb1 == outputSettings.MB1
    IN  IF ~remoteTrigger.present /\ mb1 # Undefined
        THEN IF mb1[1] >= 0 THEN RemoteTrigger(144, mb1[1], TRUE) ELSE remoteTrigger
        ELSE remoteTrigger

\* mb1 ?? keySwitch
KeySwitch(outputSettings) ==
    IF outputSettings.MB1 # Undefined THEN outputSettings.MB1 ELSE outputSettings.Note

\* The callback of articulationsData.forEach: the articulation pushed for
\* the entry at a position (from 1).
ParsedArticulation(index, artData, switches) ==
    [id            |-> index,
     midiMessages  |-> OutputMessages(artData.Output),
     remoteTrigger |-> FallbackTrigger(SwitchTrigger(switchesMapGet(switches, ArtId(artData))),
                                       artData.Output),
     keySwitch     |-> KeySwitch(artData.Output)]

parseLogicArticulationSet(doc) ==
    IF ~doc.root THEN Threw
    ELSE Outcome("returned",
                 [name |-> doc.Name,
                  articulations |->
                      [i \in 1..Len(doc.Articulations) |->
                          ParsedArticulation(i, doc.Articulations[i], doc.Switches)]])

\* Sampled entries: the scenario of one switch for one articulation, IDs 0, 1
\* and 2, values at and beyond both ends of 0..127, and each Status string.
SwitchSamples ==
    { SwitchData(Defined(1), Defined(62), Defined("Note On")),
      SwitchData(Defined(1), Defined(64), Defined("Control Change")),
      SwitchData(Defined(2), Defined(127), Defined("Poly Pressure")),
      SwitchData(Defined(2), Defined(128), Undefined),
      SwitchData(Defined(0), Defined(0), Defined("Aftertouch")),
      SwitchData(Undefined, Defined(61), Defined("Note On")) }

OutputSamples ==
    { NoOutput,
      OutputSettings(Defined(60), Defined("Note On"), Undefined, Undefined, Undefined),
      OutputSettings(Defined(0), Defined("Control Change"), Defined(0), Undefined, Undefined),
      OutputSettings(Defined(127), Defined("Poly Pressure"), Defined(100), Defined(36), Defined(90)),
      OutputSettings(Defined(128), Undefined, Undefined, Undefined, Undefined),
      OutputSettings(Defined(-1), Defined("Aftertouch"), Undefined, Defined(128), Undefined),
      OutputSettings(Undefined, Undefined, Undefined, Defined(36), Undefined),
      OutputSettings(Undefined, Undefined, Undefined, Defined(0), Defined(0)) }

ArtSamples ==
    { ArtData(Defined(1), o) : o \in OutputSamples }
    \cup { ArtData(Defined(2), OutputSettings(Defined(60), Undefined, Undefined, Undefined, Undefined)),
           ArtData(Defined(0), OutputSettings(Defined(60), Undefined, Undefined, Undefined, Undefined)),
           ArtData(Undefined, OutputSettings(Defined(60), Undefined, Undefined, Undefined, Undefined)),
           ArtData(Defined(2), NoOutput) }

\* Documents: every list of switches with one articulation entry, and every
\* list of entries with at most one switch.
Documents ==
    { Document(TRUE, Str_Cello, sw, << a >>) :
        sw \in ListsUpTo(SwitchSamples, MaxSwitches), a \in ArtSamples }
    \cup { Document(TRUE, Str_Cello, sw, arts) :
             sw \in ListsUpTo(SwitchSamples, 1),
             arts \in ListsUpTo(ArtSamples, MaxEntries) \ { <<>> } }
    \cup { Document(FALSE, Str_Cello, <<>>, <<>>) }

NoDocument == Document(FALSE, <<>>, <<>>, <<>>)

\* createSimpleArticulationSet('Demo Strings', ...): eight key switches on the
\* notes 0..7.
DEMO_ARTICULATION_SET ==
    [name |-> Str_Demo,
     articulations |->
        [i \in 1..8 |->
            [id            |-> i,
             midiMessages  |-> << MidiMessage(144, i - 1, 127) >>,
             remoteTrigger |-> RemoteTrigger(144, i - 1, FALSE),
             keySwitch     |-> Defined(i - 1)]]]

\* The startNote autoAssignRemoteTriggers takes when it is given none.
DefaultStartNote == 0

\* parseLogicArticulationSet(document)
Parse ==
    /\ parsed = NoOutcome
    /\ parsed' = parseLogicArticulationSet(document)
    /\ UNCHANGED <<document, assigned, uploadedSets, displayedSet, nFiles>>

InitParse ==
    /\ document \in Documents
    /\ parsed = NoOutcome
    /\ assigned = NoOutcome
    /\ uploadedSets = <<>>
    /\ displayedSet = DEMO_ARTICULATION_SET
    /\ nFiles = 0

ParseOnly ==
    UNCHANGED <<bridgeVars, sendVars, resolverVars, assignVars, reconnectVars,
                portVars, loadVars, socketVars, detectorVars>>

NextParse ==
    \/ Parse /\ ParseOnly

----------------------------------------------------------------------------
(* Home: handleFileUpload *)

\* A document whose switches use every note 0..127 and that has one more
\* articulation, without a switch and without an output.
FullDocument ==
    Document(TRUE, Str_Cello,
             [i \in 1..(MaxNote + 1) |-> SwitchData(Defined(i), Defined(i - 1), Defined("Note On"))],
             [i \in 1..(MaxNote + 2) |-> ArtData(Defined(i), NoOutput)])

\* The dropped files: the content of each, and whether its name ends in
\* .plist or .xml.
File(accepted, content) == [accepted |-> accepted, content |-> content]

UploadDocuments ==
    { FullDocument,
      Document(FALSE, Str_Violin, <<>>, <<>>),
      Document(TRUE, Str_Violin,
               << SwitchData(Defined(1), Defined(62), Defined("Note On")) >>,
               << ArtData(Defined(1), OutputSettings(Defined(60), Defined("Note On"),
                                                     Undefined, Undefined, Undefined)),
                  ArtData(Defined(2), OutputSettings(Undefined, Undefined, Undefined,
                                                     Defined(36), Undefined)) >>),
      Document(TRUE, Str_Cello, <<>>,
               << ArtData(Defined(1), OutputSettings(Defined(60), Undefined, Undefined,
                                                     Undefined, Undefined)) >>),
      Document(TRUE, Str_Cello, <<>>,
               << ArtData(Defined(1), NoOutput), ArtData(Defined(2), NoOutput) >>),
      Document(TRUE, Str_Violin, <<>>,
               << ArtData(Undefined, OutputSettings(Defined(128), Undefined, Undefined,
                                                    Undefined, Undefined)) >>),
      Document(TRUE, Str_Viola,
               << SwitchData(Defined(2), Defined(0), Undefined) >>,
               << ArtData(Defined(1), NoOutput), ArtData(Defined(2), NoOutput) >>) }

Files ==
    { File(TRUE, d) : d \in UploadDocuments }
    \cup { File(FALSE, Document(TRUE, Str_Viola, <<>>, << ArtData(Defined(1), NoOutput) >>)) }

\* new Map(prev).set(artSet.name, artSet): a known name keeps its place and
\* gets the new set, a new name goes last.
MapSetEntry(map, set) ==
    IF \E i \in 1..Len(map) : map[i].name = set.name
    THEN [i \in 1..Len(map) |-> IF map[i].name = set.name THEN set ELSE map[i]]
    ELSE Append(map, set)

\* A try block without the assignment pass.
TryAssignSkipped(p) == p

\* The try block up to the assignment pass: the parsed set, passed through
\* autoAssignRemoteTriggers when an articulation lacks a remote trigger.
TryAssign(p) ==
    IF p.status # "returned" THEN p
    ELSE IF hasUnassignedRemotes(p.set)
    THEN autoAssignRemoteTriggers(p.set, DefaultStartNote)
    ELSE p

\* The object given to autoAssignRemoteTriggers, after the call: the function
\* writes to its locals usedNotes and nextNote and builds the articulations
\* and the set it returns with map and spread.
ArgumentAfter(set, start) == set

\* Whether the statements after the pass, setLoadedSets and setCurrentSet,
\* are reached.
UploadStoresAlways(a) == TRUE

UploadStores(a) == a.status = "returned"

\* One round of the loop of handleFileUpload, for one file.
handleFileUpload(file) ==
    /\ nFiles < MaxFiles
    /\ nFiles' = nFiles + 1
    /\ document' = file.content
    /\ IF ~file.accepted
       THEN /\ parsed' = NoOutcome
            /\ assigned' = NoOutcome
            /\ UNCHANGED <<uploadedSets, displayedSet>>
       ELSE LET p == parseLogicArticulationSet(file.content)
                a == TryAssign(p)
            IN  /\ parsed' = IF p.status = "returned"
                              THEN Outcome("returned", ArgumentAfter(p.set, DefaultStartNote))
                              ELSE p
                /\ assigned' = a
                /\ IF UploadStores(a)
                   THEN /\ uploadedSets' = MapSetEntry(uploadedSets, a.set)
                        /\ displayedSet' = a.set
                   ELSE UNCHANGED <<uploadedSets, displayedSet>>

InitUpload ==
    /\ document = NoDocument
    /\ parsed = NoOutcome
    /\ assigned = NoOutcome
    /\ uploadedSets = <<>>
    /\ displayedSet = DEMO_ARTICULATION_SET
    /\ nFiles = 0

NextUpload ==
    \/ \E file \in Files : handleFileUpload(file) /\ ParseOnly

----------------------------------------------------------------------------
(* MidiHandler: the sockets and timers of repeated initialize calls *)

SocketIds == 1..MaxSockets

NoSocket == 0

\* A WebSocket object: its readyState and the method that created it.
Socket(state, path) == [state |-> state, path |-> path]

NotCreated == Socket("NONE", "none")

CanCreate == \E s \in SocketIds : sockets[s] = NotCreated

\* Sockets are numbered in the order of their creation.
NewSocket ==
    CHOOSE s \in SocketIds :
        /\ sockets[s] = NotCreated
        /\ \A t \in SocketIds : t < s => sockets[t] # NotCreated

\* connectWebSocket(): a new socket, held in a local until it opens.
connectWebSocket ==
    /\ sockets' = [sockets EXCEPT ![NewSocket] = Socket("CONNECTING", "webmidi")]
    /\ UNCHANGED thisWebSocket

\* initWebSocketOnly(): a new socket, assigned to this.webSocket at once.
initWebSocketOnly ==
    /\ sockets' = [sockets EXCEPT ![NewSocket] = Socket("CONNECTING", "wsonly")]
    /\ thisWebSocket' = NewSocket

\* initialize(), Web MIDI being available (webMidi) or not.
initialize(webMidi) ==
    /\ nInitialize < MaxCalls
    /\ CanCreate
    /\ nInitialize' = nInitialize + 1
    /\ IF webMidi THEN connectWebSocket ELSE initWebSocketOnly
    /\ UNCHANGED <<useWebSocket, connectTimers, wsReconnectTimer>>

\* onopen of socket s
SocketOpen(s) ==
    /\ sockets[s].state = "CONNECTING"
    /\ sockets' = [sockets EXCEPT ![s].state = "OPEN"]
    /\ IF sockets[s].path = "webmidi"
       THEN thisWebSocket' = s /\ UNCHANGED useWebSocket
       ELSE useWebSocket' = TRUE /\ UNCHANGED thisWebSocket
    /\ UNCHANGED <<connectTimers, wsReconnectTimer, nInitialize>>

\* onclose of socket s, after a failed attempt or on an open connection:
\* connectWebSocket's handler starts a timer it keeps no handle of,
\* initWebSocketOnly's clears the timer in wsReconnectTimer and starts one.
SocketClose(s) ==
    /\ sockets[s].state \in {"CONNECTING", "OPEN"}
    /\ sockets' = [sockets EXCEPT ![s].state = "CLOSED"]
    /\ IF sockets[s].path = "webmidi"
       THEN /\ thisWebSocket' = NoSocket
            /\ connectTimers' = connectTimers + 1
            /\ UNCHANGED <<useWebSocket, wsReconnectTimer>>
       ELSE /\ useWebSocket' = FALSE
            /\ wsReconnectTimer' = TRUE
            /\ UNCHANGED <<thisWebSocket, connectTimers>>
    /\ UNCHANGED nInitialize

\* A timer of connectWebSocket's onclose fires.
ConnectTimerFires ==
    /\ connectTimers > 0
    /\ CanCreate
    /\ connectTimers' = connectTimers - 1
    /\ connectWebSocket
    /\ UNCHANGED <<useWebSocket, wsReconnectTimer, nInitialize>>

\* The timer held in wsReconnectTimer fires.
ReconnectTimerFires ==
    /\ wsReconnectTimer
    /\ CanCreate
    /\ wsReconnectTimer' = FALSE
    /\ initWebSocketOnly
    /\ UNCHANGED <<useWebSocket, connectTimers, nInitialize>>

InitSockets ==
    /\ sockets = [s \in SocketIds |-> NotCreated]
    /\ thisWebSocket = NoSocket
    /\ connectTimers = 0
    /\ wsReconnectTimer = FALSE
    /\ nInitialize = 0

SocketsOnly ==
    UNCHANGED <<bridgeVars, sendVars, resolverVars, assignVars, portVars, loadVars,
                parseVars, detectorVars, wsPath, ws, handlerSocket, retryTimer, reachable, attempts>>

NextSockets ==
    \/ \E webMidi \in BOOLEAN : initialize(webMidi) /\ SocketsOnly
    \/ \E s \in SocketIds : SocketOpen(s) /\ SocketsOnly
    \/ \E s \in SocketIds : SocketClose(s) /\ SocketsOnly
    \/ ConnectTimerFires /\ SocketsOnly
    \/ ReconnectTimerFires /\ SocketsOnly

----------------------------------------------------------------------------
(* The track detector: LogicTrackMonitor and its WebSocketClient *)

\* An accessibility text.  <<"Track", n, name>> stands for the text
\* Track n "name"; any other text is a one-element sequence, and the
\* empty text is <<>>.
TrackDescription(n, name) == <<"Track", n, name>>

EmptyText == <<>>

Texts ==
    { EmptyText,
      TrackDescription("1", "Violin"),
      TrackDescription("2", "Cello"),
      TrackDescription("3", "V"),
      <<"Mixer">> }

\* The focused element: none, or the texts of the element and of its parent.
NoElement == <<>>

FocusedElements ==
    {NoElement} \cup {<<t>> : t \in Texts} \cup {<<<<"Mixer">>, t>> : t \in Texts}

\* The texts sampled for the focused window's element, for the window
\* tree, and for the value and the parent an observer callback reads.
WindowTexts == {EmptyText, TrackDescription("2", "Cello"), <<"Mixer">>}

TreeTexts == {EmptyText, TrackDescription("1", "Violin"), TrackDescription("3", "V")}

\* What one run of checkLogicPro finds: Logic Pro not running, running in
\* the background (only the window tree is searched), or active.
Poll(running, active, focused, winFocus, tree) ==
    [running |-> running, active |-> active, focused |-> focused,
     winFocus |-> winFocus, tree |-> tree]

Polls ==
    {Poll(FALSE, FALSE, NoElement, EmptyText, EmptyText)}
    \cup {Poll(TRUE, FALSE, NoElement, EmptyText, t) : t \in TreeTexts}
    \cup {Poll(TRUE, TRUE, f, w, t) : f \in FocusedElements, w \in WindowTexts,
                                      t \in TreeTexts}

\* parseTrackDescription: the quoted name of a text Track n "name", when
\* the name has at least two characters.
parseTrackDescription(desc) ==
    IF Len(desc) = 3 /\ desc[1] = "Track" /\ Len(desc[3]) >= 2
    THEN Defined(desc[3])
    ELSE Undefined

\* extractTrackNameFromElement(checkParents: true): the first text of the
\* chain that parses.
extractTrackNameFromElement(element) ==
    IF parseTrackDescription(element[1]) # Undefined
    THEN parseTrackDescription(element[1])
    ELSE IF Len(element) > 1
         THEN parseTrackDescription(element[2])
         ELSE Undefined

\* A detection that reports whatever it parsed.
ChangedAlways(trackName) == TRUE

\* The test every detection path makes before it reports a name.
Changed(trackName) == trackName # lastTrackName

\* if trackName != lastTrackName { lastTrackName = trackName;
\* onTrackChanged?(trackName) }; onTrackChanged puts a block on the main
\* queue that calls webSocket.send(trackName:).
Report(parsedName) ==
    IF parsedName # Undefined /\ Changed(parsedName[1])
    THEN /\ lastTrackName' = parsedName[1]
         /\ emitted' = Append(emitted, parsedName[1])
         /\ mainQueue' = Append(mainQueue, parsedName[1])
    ELSE UNCHANGED <<lastTrackName, emitted, mainQueue>>

\* lastLoggedFocus after getFocusedTrackName has read the focused element.
FocusAfterStrategy1(active, focused) ==
    IF active /\ focused # NoElement /\ focused[1] # EmptyText
    THEN <<"desc", focused[1]>>
    ELSE lastLoggedFocus

\* checkLogicPro(): the poll timer's callback.  running and active are
\* Logic Pro's state; focused, winFocus and tree are what the three
\* searches find.
checkLogicPro(running, active, focused, winFocus, tree) ==
    LET strategy1 == IF active /\ focused # NoElement
                     THEN extractTrackNameFromElement(focused)
                     ELSE Undefined
        focus1    == FocusAfterStrategy1(active, focused)
        focusInfo == <<"winFocus", winFocus>>
        windowRead == /\ active
                      /\ strategy1 = Undefined
                      /\ winFocus # EmptyText
                      /\ focusInfo # focus1
    IN  /\ nPolls < MaxPolls
        /\ nPolls' = nPolls + 1
        /\ IF ~running
           THEN /\ logicElement' = FALSE
                /\ UNCHANGED <<lastLoggedFocus, lastTrackName, emitted, mainQueue>>
           ELSE /\ logicElement' = TRUE
                /\ lastLoggedFocus' = IF windowRead THEN focusInfo ELSE focus1
                /\ IF strategy1 # Undefined
                   THEN Report(strategy1)
                   ELSE IF windowRead /\ parseTrackDescription(winFocus) # Undefined
                        THEN Report(parseTrackDescription(winFocus))
                        ELSE Report(parseTrackDescription(tree))
        /\ UNCHANGED <<isConnected, link, reconnectTimer, socketSent, nLinkEvents>>

\* The accessibility observer's callback, registered once logicElement is
\* set: the element's description, then its value, then its parent's
\* description.
observerCallback(desc, value, parentDesc) ==
    /\ logicElement
    /\ nPolls < MaxPolls
    /\ nPolls' = nPolls + 1
    /\ IF desc # EmptyText /\ parseTrackDescription(desc) # Undefined
       THEN Report(parseTrackDescription(desc))
       ELSE IF value # EmptyText /\ parseTrackDescription(value) # Undefined
            THEN Report(parseTrackDescription(value))
            ELSE IF parentDesc # EmptyText
                 THEN Report(parseTrackDescription(parentDesc))
                 ELSE UNCHANGED <<lastTrackName, emitted, mainQueue>>
    /\ UNCHANGED <<logicElement, lastLoggedFocus, isConnected, link, reconnectTimer,
                   socketSent, nLinkEvents>>

\* The messages of the detector.
IdentifyMessage == [type |-> "identify", clientType |-> "track-monitor"]

TrackMessage(trackName) == [type |-> "trackChange", trackName |-> trackName]

\* WebSocketClient.send(trackName:).
send(trackName) ==
    IF isConnected
    THEN Append(socketSent, TrackMessage(trackName))
    ELSE socketSent

\* The block of onTrackChanged runs on the main queue.
RunBlock ==
    /\ mainQueue # <<>>
    /\ socketSent' = send(Head(mainQueue))
    /\ mainQueue' = Tail(mainQueue)
    /\ UNCHANGED <<logicElement, lastLoggedFocus, lastTrackName, emitted, isConnected,
                   link, reconnectTimer, nPolls, nLinkEvents>>

\* A connection that sends the last track again once it is open.
OpenResendsLast ==
    IF lastTrackName # ""
    THEN socketSent \o <<IdentifyMessage, TrackMessage(lastTrackName)>>
    ELSE Append(socketSent, IdentifyMessage)

\* What didOpenWithProtocol sends: identify(), and onConnected sets a
\* menu title only.
SentAfterOpen == Append(socketSent, IdentifyMessage)

LinkEvent ==
    /\ nLinkEvents < MaxLinkEvents
    /\ nLinkEvents' = nLinkEvents + 1
    /\ UNCHANGED <<logicElement, lastLoggedFocus, lastTrackName, emitted, mainQueue,
                   nPolls>>

\* urlSession(_:webSocketTask:didOpenWithProtocol:).
didOpenWithProtocol ==
    /\ link = "connecting"
    /\ LinkEvent
    /\ link' = "open"
    /\ isConnected' = TRUE
    /\ socketSent' = SentAfterOpen
    /\ UNCHANGED reconnectTimer

\* urlSession(_:webSocketTask:didCloseWith:reason:).
didCloseWith ==
    /\ link = "open"
    /\ LinkEvent
    /\ link' = "down"
    /\ isConnected' = FALSE
    /\ reconnectTimer' = TRUE
    /\ UNCHANGED socketSent

\* urlSession(_:task:didCompleteWithError:) with an error.
didCompleteWithError ==
    /\ link \in {"connecting", "open"}
    /\ LinkEvent
    /\ link' = "down"
    /\ isConnected' = FALSE
    /\ reconnectTimer' = TRUE
    /\ UNCHANGED socketSent

\* The reconnect timer fires: connect().
ReconnectFires ==
    /\ reconnectTimer
    /\ LinkEvent
    /\ reconnectTimer' = FALSE
    /\ link' = "connecting"
    /\ UNCHANGED <<isConnected, socketSent>>

\* After applicationDidFinishLaunching: connect() was called and the
\* monitor started.
InitDetector ==
    /\ logicElement = FALSE
    /\ lastLoggedFocus = EmptyText
    /\ lastTrackName = ""
    /\ emitted = <<>>
    /\ mainQueue = <<>>
    /\ isConnected = FALSE
    /\ link = "connecting"
    /\ reconnectTimer = FALSE
    /\ socketSent = <<>>
    /\ nPolls = 0
    /\ nLinkEvents = 0

DetectorOnly ==
    UNCHANGED <<bridgeVars, sendVars, resolverVars, assignVars, reconnectVars,
                portVars, loadVars, parseVars, socketVars>>

NextDetector ==
    \/ \E p \in Polls :
          checkLogicPro(p.running, p.active, p.focused, p.winFocus, p.tree)
          /\ DetectorOnly
    \/ \E desc \in Texts, value \in WindowTexts, parentDesc \in TreeTexts :
          observerCallback(desc, value, parentDesc) /\ DetectorOnly
    \/ RunBlock /\ DetectorOnly
    \/ didOpenWithProtocol /\ DetectorOnly
    \/ didCloseWith /\ DetectorOnly
    \/ didCompleteWithError /\ DetectorOnly
    \/ ReconnectFires /\ DetectorOnly

----------------------------------------------------------------------------
(* Specifications *)

\* The parts of the system a specification leaves alone.
IdleBridge ==
    /\ variant = 2
    /\ readyState = [s \in Sessions |-> "NONE"]
    /\ clientType = [s \in Sessions |-> Absent]
    /\ wsClients = {}
    /\ outbox = [s \in Sessions |-> <<>>]
    /\ midiOut = FALSE
    /\ selectedOutPortName = NoPort
    /\ midiSent = <<>>
    /\ lastArticulationSetId = Missing
    /\ evt = Event("init", 0, NoPayload, NoMidiIn)
    /\ nEvents = 0

IdleAssign ==
    /\ artSet = ArticulationSet(<<>>)
    /\ startNote = 0
    /\ once = NoOutcome
    /\ twice = NoOutcome

IdleSend     == InitSend
IdleResolver ==
    /\ currentTrack = <<>>
    /\ currentSet = Str_Demo
    /\ loadedSets = <<>>
    /\ inflight = {}
    /\ applied = Step("init", <<>>, NoName)
    /\ nTracks = 0
    /\ catalogueRoot = "present"

IdleReconnect ==
    /\ wsPath = "webmidi"
    /\ ws = "CONNECTING"
    /\ handlerSocket = "null"
    /\ useWebSocket = FALSE
    /\ retryTimer = NoTimer
    /\ reachable = FALSE
    /\ attempts = 0

IdlePort ==
    /\ startPort = DEFAULT_WS_PORT
    /\ maxAttempts = 0
    /\ probePort = DEFAULT_WS_PORT
    /\ probes = <<>>
    /\ found = NoResult

IdleLoad ==
    /\ request = <<>>
    /\ reply = NoReply
    /\ filesRead = <<>>

\* The parser, the upload handler and the sockets are not created in the
\* other specifications.
Unused == <<>>

IdleParse ==
    /\ document = Unused
    /\ parsed = Unused
    /\ assigned = Unused
    /\ uploadedSets = Unused
    /\ displayedSet = Unused
    /\ nFiles = 0

IdleSockets ==
    /\ sockets = Unused
    /\ thisWebSocket = NoSocket
    /\ connectTimers = 0
    /\ wsReconnectTimer = FALSE
    /\ nInitialize = 0

IdleDetector ==
    /\ logicElement = FALSE
    /\ lastLoggedFocus = Unused
    /\ lastTrackName = ""
    /\ emitted = Unused
    /\ mainQueue = Unused
    /\ isConnected = FALSE
    /\ link = "down"
    /\ reconnectTimer = FALSE
    /\ socketSent = Unused
    /\ nPolls = 0
    /\ nLinkEvents = 0

IdleRest == IdleReconnect /\ IdlePort /\ IdleLoad /\ IdleParse /\ IdleSockets
            /\ IdleDetector
IdleCore == IdleBridge /\ IdleSend /\ IdleResolver /\ IdleAssign /\ IdleParse /\ IdleSockets
            /\ IdleDetector
IdleUpTo == IdleBridge /\ IdleSend /\ IdleResolver /\ IdleAssign /\ IdleReconnect
            /\ IdlePort /\ IdleLoad

StartBridge   == InitBridge /\ IdleSend /\ IdleResolver /\ IdleAssign /\ IdleRest
StartSend     == IdleBridge /\ InitSend /\ IdleResolver /\ IdleAssign /\ IdleRest
StartResolver == IdleBridge /\ IdleSend /\ InitResolver /\ IdleAssign /\ IdleRest
StartAssign   == IdleBridge /\ IdleSend /\ IdleResolver /\ InitAssign /\ IdleRest
StartReconnect == IdleCore /\ InitReconnect /\ IdlePort /\ IdleLoad
StartPort     == IdleCore /\ IdleReconnect /\ InitPort /\ IdleLoad
StartLoad     == IdleCore /\ IdleReconnect /\ IdlePort /\ InitLoad
StartBridgeFirst == InitBridgeFirst /\ IdleSend /\ IdleResolver /\ IdleAssign /\ IdleRest
StartSending  == InitBridge /\ InitSend /\ IdleResolver /\ IdleAssign /\ IdleRest
StartParse    == IdleUpTo /\ InitParse /\ IdleSockets /\ IdleDetector
StartUpload   == IdleUpTo /\ InitUpload /\ IdleSockets /\ IdleDetector
StartSockets  == IdleUpTo /\ IdleParse /\ InitSockets /\ IdleDetector
StartDetector == IdleUpTo /\ IdleParse /\ IdleSockets /\ InitDetector

SpecBridge   == StartBridge /\ [][NextBridge]_vars
SpecSend     == StartSend /\ [][NextSend]_vars
SpecResolver == StartResolver /\ [][NextResolver]_vars
SpecAssign   == StartAssign /\ [][NextAssign]_vars
SpecReconnect == StartReconnect /\ [][NextReconnect]_vars /\ FairReconnect
SpecPort     == StartPort /\ [][NextPort]_vars
SpecLoad     == StartLoad /\ [][NextLoad]_vars
SpecBridgeFirst == StartBridgeFirst /\ [][NextBridge]_vars
SpecSending  == StartSending /\ [][NextSending]_vars
SpecParse    == StartParse /\ [][NextParse]_vars
SpecUpload   == StartUpload /\ [][NextUpload]_vars
SpecSockets  == StartSockets /\ [][NextSockets]_vars
SpecDetector == StartDetector /\ [][NextDetector]_vars

----------------------------------------------------------------------------
(* Properties of the bridge server, under SpecBridge *)

IsTrackChange(e) ==
    e.kind = "message" /\ e.payload.json = "object" /\ e.payload.type = "trackChange"

LastType(s) == outbox[s][Len(outbox[s])].type

\* C1: when the server receives a trackChange, every open session of role
\* display is sent one trackChange and no other session is sent anything; a
\* detector-role sender does not get its own message back.
C1_TrackChangeScope ==
    [][ IsTrackChange(evt') =>
          \A s \in Sessions :
              IF readyState[s] = "OPEN" /\ clientType[s] = BROWSER
              THEN /\ Len(outbox'[s]) = Len(outbox[s]) + 1
                   /\ SubSeq(outbox'[s], 1, Len(outbox[s])) = outbox[s]
                   /\ outbox'[s][Len(outbox'[s])].type = "trackChange"
              ELSE outbox'[s] = outbox[s] ]_vars

\* A detector has sent a trackChange: an open display session got it and the
\* detector's own outbox holds no trackChange.
C1_Witness ==
    /\ IsTrackChange(evt)
    /\ clientType[evt.session] = TRACK_MONITOR
    /\ \A i \in 1..Len(outbox[evt.session]) : outbox[evt.session][i].type # "trackChange"
    /\ \E t \in Sessions :
          /\ readyState[t] = "OPEN"
          /\ clientType[t] = BROWSER
          /\ LastType(t) = "trackChange"

\* C3: a session's role is display from its accept on; it changes only from
\* display to detector and only on an identify with clientType "track-monitor"
\* on that session; an identify with another clientType leaves it as it is.
C3_RoleChangesOnce ==
    [][ \A s \in Sessions :
          /\ (readyState[s] = "NONE" /\ readyState'[s] # "NONE")
                => clientType'[s] = BROWSER
          /\ (readyState[s] # "NONE" /\ clientType'[s] # clientType[s])
                => /\ clientType[s] = BROWSER
                   /\ clientType'[s] = TRACK_MONITOR
                   /\ evt'.kind = "message"
                   /\ evt'.session = s
                   /\ evt'.payload.type = "identify"
                   /\ evt'.payload.clientType = TRACK_MONITOR
          /\ (/\ evt'.kind = "message"
              /\ evt'.session = s
              /\ evt'.payload.type = "identify"
              /\ evt'.payload.clientType # TRACK_MONITOR)
                => clientType'[s] = clientType[s] ]_vars

\* A detector session has just sent an identify with clientType "browser".
C3_Witness ==
    /\ evt.kind = "message"
    /\ evt.payload.type = "identify"
    /\ evt.payload.clientType = BROWSER
    /\ clientType[evt.session] = TRACK_MONITOR

\* C4: on every accepted session the first message the server sent is the
\* connected snapshot; nothing else was sent on it before.
C4_ConnectedFirst ==
    \A s \in Sessions :
        /\ readyState[s] # "NONE" => outbox[s] # <<>>
        /\ outbox[s] # <<>> => outbox[s][1].type = "connected"

\* A session was sent its snapshot and then a trackChange; a session accepted
\* after that broadcast was sent its own snapshot and then a pong.
C4_Witness ==
    \E s, t \in Sessions :
        /\ s < t
        /\ Len(outbox[s]) >= 2
        /\ outbox[s][1].type = "connected"
        /\ outbox[s][2].type = "trackChange"
        /\ Len(outbox[t]) = 2
        /\ outbox[t][1].type = "connected"
        /\ outbox[t][2].type = "pong"

IsMalformedMidi(e) ==
    /\ e.kind = "message"
    /\ e.payload.json = "object"
    /\ e.payload.type = "midi"
    /\ \E i \in 1..3 : e.payload.fields[i] \notin 0..255

\* C6: a midi message with a missing or malformed status, data1 or data2 is
\* dropped: nothing is handed to the MIDI output, no reply is sent and the
\* session stays open.
C6_MalformedMidiDropped ==
    [][ IsMalformedMidi(evt') =>
          /\ midiSent' = midiSent
          /\ outbox' = outbox
          /\ readyState'[evt'.session] = "OPEN" ]_vars

\* C7: a payload JSON.parse rejects changes nothing: the session stays open
\* and registered with its role, nothing is sent to any session or to the
\* MIDI output.
C7_UnparseableIgnored ==
    [][ (evt'.kind = "message" /\ evt'.payload.json = "invalid") =>
          /\ readyState' = readyState
          /\ readyState'[evt'.session] = "OPEN"
          /\ wsClients' = wsClients
          /\ evt'.session \in wsClients'
          /\ clientType' = clientType
          /\ outbox' = outbox
          /\ midiSent' = midiSent
          /\ lastArticulationSetId' = lastArticulationSetId ]_vars

\* A detector session has just sent an unparseable payload and is still an
\* open, registered detector session.
C7_Witness ==
    /\ evt.kind = "message"
    /\ evt.payload.json = "invalid"
    /\ clientType[evt.session] = TRACK_MONITOR
    /\ readyState[evt.session] = "OPEN"
    /\ evt.session \in wsClients

----------------------------------------------------------------------------
(* Properties of sendMessages, under SpecSend *)

\* C5: with useGlobalChannel, a status s in 0x80..0xEF is transmitted as
\* (s AND 0xF0) OR channel, a status in 0xF0..0xFF as it is, and data1 and
\* data2 as they are; the channel is in 0..15.
C5_ChannelOverride ==
    (call.active /\ call.useGlobalChannel) =>
        LET sent == call.viaWebSocket \o call.viaWebMidi
        IN  /\ channel \in 0..15
            /\ \A i \in 1..Len(sent) :
                  LET m == call.messages[i]
                  IN  /\ sent[i][2] = m.data1
                      /\ sent[i][3] = m.data2
                      /\ m.status \in 128..239 =>
                            sent[i][1] = (m.status \div 16) * 16 + channel
                      /\ m.status \in 240..255 => sent[i][1] = m.status

\* {0x90, 60, 100} was sent over the bridge socket on channel 5 as {0x95, 60, 100}.
C5_Witness ==
    /\ call.active
    /\ call.useGlobalChannel
    /\ channel = 5
    /\ call.messages = << MidiMessage(144, 60, 100) >>
    /\ call.viaWebSocket = << <<149, 60, 100>> >>

----------------------------------------------------------------------------
(* Properties of the onTrackName handler, under SpecResolver *)

\* C2: the displayed set is never changed by a resolution whose track name
\* differs from the then-current track name.
C2_StaleResultIgnored ==
    [][ currentSet' # currentSet => applied'.track = currentTrack' ]_vars

\* Containment in either direction, ignoring case.
EitherContains(a, b) ==
    \/ includes(toLowerCase(a), toLowerCase(b))
    \/ includes(toLowerCase(b), toLowerCase(a))

LeastOf(S) == CHOOSE i \in S : \A j \in S : i <= j

\* The first entry of a search's list whose lower-cased name contains the
\* lower-cased track name, else the first entry, for every track name.
ExpectedBest ==
    [trackName \in ResolverTracks |->
        LET sets == GET(trackName)
            fwd  == { i \in 1..Len(sets) :
                        includes(toLowerCase(sets[i].name), toLowerCase(trackName)) }
        IN  IF sets = <<>> THEN <<>>
            ELSE IF fwd # {} THEN << sets[LeastOf(fwd)] >> ELSE << sets[1] >>]

\* The pairs of a set name and a track name of which one contains the other.
Related ==
    { pair \in SetNames \X ResolverTracks : EitherContains(pair[1], pair[2]) }

\* C11: the catalogue search returns every entry whose name contains the
\* track name or is contained in it, ignoring case: a search that has
\* completed for a track name left out no such entry.
C11_EitherDirectionSearch ==
    applied.kind \in {"found", "none"} =>
        \A i \in 1..Len(Catalogue) :
            EitherContains(Catalogue[i].name, applied.track) =>
                \E j \in 1..Len(GET(applied.track)) :
                    GET(applied.track)[j] = Catalogue[i]

\* C12: of the list a search returned the resolver picks the first entry
\* whose lower-cased name contains the lower-cased track name, else the
\* first entry of the list; of an empty list it picks nothing and issues no
\* load.
C12_BestMatch ==
    [][ /\ applied'.kind = "found" =>
              \E r \in inflight' \ inflight :
                  /\ r.phase = "load"
                  /\ r.track = applied'.track
                  /\ << r.best >> = ExpectedBest[r.track]
                  /\ inflight' \ inflight = {r}
        /\ applied'.kind \in {"none", "error"} => inflight' \subseteq inflight ]_vars

\* For "Cello" the search listed "Cello/Legato" before "AC Cello" and the
\* resolver picked "AC Cello"; for "strings" no name contains the track name
\* and it picked the first entry listed.
C12_Witness ==
    /\ GET(Str_Cello)[1].name = Str_Legato
    /\ \E r \in inflight :
          r.phase = "load" /\ r.track = Str_Cello /\ r.best.name = Str_ACCello
    /\ \E r \in inflight :
          /\ r.phase = "load" /\ r.track = Str_strings
          /\ r.best = GET(Str_strings)[1]
          /\ ~includes(toLowerCase(r.best.name), Str_strings)

C14_NoMatchKeepsSet ==
    [][ /\ (nTracks' = nTracks + 1 /\ applied'.kind = "started") =>
              /\ currentTrack' = applied'.track
              /\ currentSet' = currentSet
              /\ loadedSets' = loadedSets
        /\ applied'.kind \in {"none", "error"} =>
              /\ currentTrack' = currentTrack
              /\ currentSet' = currentSet
              /\ loadedSets' = loadedSets
              /\ inflight' \subseteq inflight ]_vars

\* With "Cello" displayed and cached, the search for track "Viola" returned
\* no entry.
C14_Witness ==
    /\ applied = Step("none", Str_Viola, NoName)
    /\ currentTrack = Str_Viola
    /\ currentSet = Str_Cello
    /\ loadedSets = << Str_Cello >>
    /\ inflight = {}

----------------------------------------------------------------------------
(* Properties of autoAssignRemoteTriggers, under SpecAssign *)

Lacking(arts) == { i \in 1..Len(arts) : ~arts[i].remoteTrigger.present }

NonAutoNotes(arts) ==
    { arts[i].remoteTrigger.data1 :
        i \in { j \in 1..Len(arts) \ Lacking(arts) : ~arts[j].remoteTrigger.isAutoAssigned } }

\* The k-th smallest integer from start on that is not in used.
KthFree(used, start, k) ==
    CHOOSE n \in start..(start + k + Cardinality(used)) :
        /\ n \notin used
        /\ Cardinality({ m \in start..n : m \notin used }) = k

\* C8: applying autoAssignRemoteTriggers to its own output returns a set with
\* the same remote trigger on every articulation and the same
\* countAutoAssignedRemotes.
C8_Idempotent ==
    twice # NoOutcome =>
        /\ twice.status = "returned"
        /\ Len(twice.set.articulations) = Len(once.set.articulations)
        /\ \A i \in 1..Len(once.set.articulations) :
              twice.set.articulations[i].remoteTrigger
                 = once.set.articulations[i].remoteTrigger
        /\ countAutoAssignedRemotes(twice.set) = countAutoAssignedRemotes(once.set)

\* The first call assigned a note past a note a switch uses, and the second
\* call has returned.
C8_Witness ==
    /\ twice.status = "returned"
    /\ hasUnassignedRemotes(artSet)
    /\ NonAutoNotes(artSet.articulations) # {}
    /\ countAutoAssignedRemotes(once.set) > countAutoAssignedRemotes(artSet)
    /\ \E i \in Lacking(artSet.articulations) :
          once.set.articulations[i].remoteTrigger.data1 > startNote

C10_ExhaustionFails ==
    once # NoOutcome =>
        LET in   == artSet.articulations
            free == { n \in 0..MaxNote : n >= startNote /\ n \notin NonAutoNotes(in) }
        IN  /\ Cardinality(Lacking(in)) > Cardinality(free) => once = Threw
            /\ artSet = FullSet => once = Threw

----------------------------------------------------------------------------
(* Properties of the bridge connection, under SpecReconnect *)

Connected == ws = "OPEN" /\ (wsPath = "webmidi" => handlerSocket = "ws")

\* C15: every close of the bridge connection sets a reconnect timer of 5 s
\* (Web MIDI path) or 3 s (WebSocket-only path), whatever the number of
\* earlier retries; the next attempt starts when that delay has passed; and
\* if the server stays reachable from some time on, the client is connected
\* again and again.
C15_Reconnects ==
    /\ [][ /\ (ws # "CLOSED" /\ ws' = "CLOSED") =>
                  retryTimer' = IF wsPath = "webmidi" THEN 5 ELSE 3
           /\ (ws = "CLOSED" /\ ws' # "CLOSED") =>
                  retryTimer = 0 /\ ws' = "CONNECTING"
           /\ (ws = "CLOSED" /\ ws' = "CLOSED") =>
                  retryTimer' \in {retryTimer, retryTimer - 1} ]_vars
    /\ [](ws = "CLOSED" => retryTimer \in 0..5)
    /\ (<>[]reachable => []<>Connected)

\* On the Web MIDI path the client is connected after MaxRetries retries.
C15_Witness ==
    /\ wsPath = "webmidi"
    /\ Connected
    /\ attempts = MaxRetries
    /\ retryTimer = NoTimer

----------------------------------------------------------------------------
(* Properties of sending without an output, under SpecSending *)

IsMidi(e) == e.kind = "message" /\ e.payload.json = "object" /\ e.payload.type = "midi"

\* C16: with no MIDI output open, the server hands a midi message to no
\* output, now or later, sends nothing and keeps the session open and
\* registered; the client's sendMessages returns false and transmits nothing
\* when its bridge socket is not open and no Web MIDI output is selected.
C16_NoOutputDrops ==
    /\ [][ (nEvents' # nEvents /\ IsMidi(evt') /\ ~midiOut) =>
              /\ midiSent' = midiSent
              /\ outbox' = outbox
              /\ readyState' = readyState
              /\ readyState'[evt'.session] = "OPEN"
              /\ wsClients' = wsClients ]_vars
    /\ [](~midiOut => midiSent = <<>>)
    /\ []((call.active /\ webSocket # "OPEN" /\ selectedOutput = "null") =>
              /\ call.result = FALSE
              /\ call.viaWebSocket = <<>>
              /\ call.viaWebMidi = <<>>)

\* The server, without an output, has received two midi messages, and the
\* client's sendMessages has just returned false with its socket closed.
C16_Witness ==
    /\ ~midiOut
    /\ IsMidi(evt)
    /\ nEvents >= 3
    /\ readyState[evt.session] = "OPEN"
    /\ evt.session \in wsClients
    /\ midiSent = <<>>
    /\ call.active
    /\ call.messages # <<>>
    /\ webSocket = "CLOSED"
    /\ selectedOutput = "null"
    /\ call.result = FALSE

----------------------------------------------------------------------------
(* More properties of the bridge server, under SpecBridge / SpecBridgeFirst *)

\* C17: for a midi message whose status, data1 and data2 are bytes, the
\* array handed to the open MIDI output is <<status, data1, data2>>, as
\* received.
C17_BytesVerbatim ==
    [][ (/\ nEvents' # nEvents
         /\ IsMidi(evt')
         /\ \A i \in 1..3 : evt'.payload.fields[i] \in 0..255
         /\ midiOut) =>
            midiSent' = Append(midiSent, evt'.payload.fields) ]_vars

\* The control change on channel 5 was handed to the output after another
\* message, as {0xB5, 1, 64}.
C17_Witness ==
    /\ IsMidi(evt)
    /\ evt.payload.fields = <<181, 1, 64>>
    /\ Len(midiSent) >= 2
    /\ midiSent[Len(midiSent)] = <<181, 1, 64>>

\* C18: a ping on a session appends one pong to that session's outbox and
\* nothing to any other; the pong carries the output port name and the port
\* the server listens on.
C18_PingPong ==
    [][ (/\ nEvents' # nEvents
         /\ evt'.kind = "message"
         /\ evt'.payload.json = "object"
         /\ evt'.payload.type = "ping") =>
            \A s \in Sessions :
                IF s = evt'.session
                THEN /\ Len(outbox'[s]) = Len(outbox[s]) + 1
                     /\ SubSeq(outbox'[s], 1, Len(outbox[s])) = outbox[s]
                     /\ outbox'[s][Len(outbox'[s])].type = "pong"
                     /\ outbox'[s][Len(outbox'[s])].port = selectedOutPortName
                     /\ outbox'[s][Len(outbox'[s])].wsPort = ListenPort
                ELSE outbox'[s] = outbox[s] ]_vars

----------------------------------------------------------------------------
(* Properties of findAvailablePort, under SpecPort *)

NonReserved(a, b) == { q \in a..b : q \notin MACOS_RESERVED_PORTS }

\* C19: no reserved port is probed or returned; a returned port is the
\* first non-reserved port from startPort on that was probed available,
\* within maxAttempts probes; the call throws only after maxAttempts probes
\* that all found their port unavailable.
C19_NeverReserved ==
    /\ \A i \in 1..Len(probes) : probes[i][1] \notin MACOS_RESERVED_PORTS
    /\ Len(probes) <= maxAttempts
    /\ found.status = "returned" =>
          /\ found.port \notin MACOS_RESERVED_PORTS
          /\ found.port >= startPort
          /\ probes[Len(probes)] = <<found.port, TRUE>>
          /\ Len(probes) = Cardinality(NonReserved(startPort, found.port))
          /\ \A q \in NonReserved(startPort, found.port - 1) :
                \E i \in 1..Len(probes) : probes[i] = <<q, FALSE>>
    /\ found.status = "threw" =>
          /\ Len(probes) = maxAttempts
          /\ \A i \in 1..Len(probes) : probes[i][2] = FALSE
          /\ \A i \in 1..Len(probes) :
                Cardinality(NonReserved(startPort, probes[i][1])) = i

\* From startPort 2999, found busy, the call skipped 3000 and returned 3001.
C19_Witness ==
    /\ startPort = 2999
    /\ probes = << <<2999, FALSE>>, <<3001, TRUE>> >>
    /\ found = PortResult("returned", 3001)

----------------------------------------------------------------------------
(* Properties of the load operation, under SpecLoad *)

\* The resolved location lies in the root directory or below it.
InsideRoot(path) ==
    LET resolved == join(RootSegments, path)
    IN  /\ Len(resolved) >= Len(RootSegments)
        /\ SubSeq(resolved, 1, Len(RootSegments)) = RootSegments

\* C20: a request whose resolved location lies outside the root directory
\* is answered "Invalid path" and no file is read for it.
C20_RejectsOutsideRoot ==
    (reply # NoReply /\ request # <<>> /\ ~InsideRoot(request)) =>
        /\ reply = LoadReply(400, "Invalid path")
        /\ filesRead = <<>>

----------------------------------------------------------------------------
(* Properties of parseLogicArticulationSet, under SpecParse *)

\* The switches of the document whose ID is the ID of the entry.
SwitchesOf(doc, entry) ==
    { j \in 1..Len(doc.Switches) :
        doc.Switches[j].ID # Undefined /\ doc.Switches[j].ID = entry.ID }

\* The value an entry's output defines: its MB1, or else its Note, when it
\* is a note number.
OutputValue(outputSettings) ==
    IF InNoteRange(outputSettings.MB1) THEN outputSettings.MB1
    ELSE IF outputSettings.MB1 = Undefined /\ InNoteRange(outputSettings.Note)
    THEN outputSettings.Note
    ELSE Undefined

\* C21: an articulation that no switch matches and whose output defines MB1
\* or Note gets the remote trigger {0x90, that value, isAutoAssigned = true},
\* both when the output defines MB1 and when it defines only Note.
C21_FallbackFromOutput ==
    parsed.status = "returned" =>
        \A i \in 1..Len(document.Articulations) :
            LET entry == document.Articulations[i]
                value == OutputValue(entry.Output)
            IN  (SwitchesOf(document, entry) = {} /\ value # Undefined) =>
                    parsed.set.articulations[i].remoteTrigger
                        = RemoteTrigger(144, value[1], TRUE)

\* C22: an articulation whose ID is the ID of a switch with a note number
\* gets its remote trigger from that switch (MB1, Status, isAutoAssigned =
\* false), and its output message from its own Output, with velocity 127
\* when none is given.
C22_TriggerFromSwitch ==
    parsed.status = "returned" =>
        \A i \in 1..Len(document.Articulations) :
            LET entry == document.Articulations[i]
                art   == parsed.set.articulations[i]
                from  == { j \in SwitchesOf(document, entry) :
                             InNoteRange(document.Switches[j].MB1) }
            IN  from # {} =>
                   /\ \E j \in from :
                         art.remoteTrigger =
                            RemoteTrigger(
                               StatusByte(OrString(document.Switches[j].Status, "Note On")),
                               document.Switches[j].MB1[1], FALSE)
                   /\ (InNoteRange(entry.Output.MB1) /\ entry.Output.ValueLow = Undefined) =>
                         \E k \in 1..Len(art.midiMessages) :
                            art.midiMessages[k] =
                               MidiMessage(StatusByte(OrString(entry.Output.Status, "Note On")),
                                           entry.Output.MB1[1], 127)

\* The scenario of C22: one switch {ID 1, MB1 62, Note On}, one articulation
\* {ID 1, Output {MB1 60, Note On}}.
Scenario ==
    Document(TRUE, Str_Cello,
             << SwitchData(Defined(1), Defined(62), Defined("Note On")) >>,
             << ArtData(Defined(1), OutputSettings(Defined(60), Defined("Note On"),
                                                   Undefined, Undefined, Undefined)) >>)

ScenarioParsed ==
    (document = Scenario /\ parsed # NoOutcome) =>
        /\ parsed.set.articulations[1].midiMessages = << MidiMessage(144, 60, 127) >>
        /\ parsed.set.articulations[1].remoteTrigger = RemoteTrigger(144, 62, FALSE)

ScenarioReached == document = Scenario /\ parsed # NoOutcome

----------------------------------------------------------------------------
(* Properties of handleFileUpload, under SpecUpload *)

----------------------------------------------------------------------------
(* Properties of the broadcasts and of wsClients, under SpecBridge *)

\* The trackChange messages among those sent to a session, in order.
TrackChanges(box) == SelectSeq(box, LAMBDA m : m.type = "trackChange")

\* C24: every trackChange message the server sends carries the trackName of
\* the inbound trackChange message that is being handled, as it came.
C24_TrackNameVerbatim ==
    [][ \A s \in Sessions :
          \A i \in (Len(outbox[s]) + 1)..Len(outbox'[s]) :
              outbox'[s][i].type = "trackChange" =>
                  /\ IsTrackChange(evt')
                  /\ outbox'[s][i].trackName = evt'.payload.trackName ]_vars

\* A session was sent "Violin" and then "Cello", the name of the inbound
\* message handled last.
C24_Witness ==
    /\ IsTrackChange(evt)
    /\ evt.payload.trackName = "Cello"
    /\ \E s \in Sessions :
          /\ Len(outbox[s]) = 3
          /\ outbox[s][2] = TrackChangeMsg("Violin")
          /\ outbox[s][3] = TrackChangeMsg("Cello")

\* The accepted sessions whose close event has not been handled.
LiveSessions == { s \in Sessions : readyState[s] \in {"OPEN", "CLOSING"} }

\* C26: wsClients is the set of accepted sessions whose close has not been
\* handled: a session joins it in its accept and leaves it in the handling
\* of its close, and nothing is sent to a session whose close was handled.
C26_ClientsAreLiveSessions ==
    /\ [](wsClients = LiveSessions)
    /\ [][ \A s \in Sessions :
             /\ (s \in wsClients' /\ s \notin wsClients)
                   => evt'.kind = "accept" /\ evt'.session = s
             /\ (s \in wsClients /\ s \notin wsClients')
                   => evt'.kind = "close" /\ evt'.session = s
             /\ readyState[s] = "CLOSED" => outbox'[s] = outbox[s] ]_vars

\* A display session's close was handled; a trackChange that came after it
\* went to the other session only.
C26_Witness ==
    \E s, t \in Sessions :
        /\ readyState[s] = "CLOSED"
        /\ clientType[s] = BROWSER
        /\ Len(outbox[s]) = 1
        /\ wsClients = {t}
        /\ IsTrackChange(evt)
        /\ LastType(t) = "trackChange"

\* C28: a trackChange from a session of role display goes to every open
\* display session, the sender among them.
C28_DisplaySenderIncluded ==
    [][ (IsTrackChange(evt') /\ clientType[evt'.session] = BROWSER) =>
          /\ outbox'[evt'.session] =
                Append(outbox[evt'.session], TrackChangeMsg(evt'.payload.trackName))
          /\ \A c \in Sessions :
                (readyState[c] = "OPEN" /\ clientType[c] = BROWSER) =>
                    outbox'[c] = Append(outbox[c], TrackChangeMsg(evt'.payload.trackName)) ]_vars

\* A display session has sent a trackChange; it and the other open display
\* session were both sent it.
C28_Witness ==
    /\ IsTrackChange(evt)
    /\ clientType[evt.session] = BROWSER
    /\ \A s \in Sessions :
          /\ readyState[s] = "OPEN"
          /\ clientType[s] = BROWSER
          /\ outbox[s] = << ConnectedMsg, TrackChangeMsg(evt.payload.trackName) >>

\* C29: for a session that is open and of role display before and after a
\* step, the trackChange messages sent to it grow by the inbound trackChange
\* being handled, at the end, and by nothing in any other step.
C29_InOrderOnce ==
    [][ \A c \in Sessions :
          (/\ readyState[c] = "OPEN" /\ clientType[c] = BROWSER
           /\ readyState'[c] = "OPEN" /\ clientType'[c] = BROWSER) =>
              TrackChanges(outbox'[c]) =
                 IF IsTrackChange(evt')
                 THEN Append(TrackChanges(outbox[c]), TrackChangeMsg(evt'.payload.trackName))
                 ELSE TrackChanges(outbox[c]) ]_vars

\* A display session was sent "Cello" and then "Violin", as the detector
\* session sent them.
C29_Witness ==
    /\ IsTrackChange(evt)
    /\ clientType[evt.session] = TRACK_MONITOR
    /\ \E c \in Sessions :
          /\ clientType[c] = BROWSER
          /\ readyState[c] = "OPEN"
          /\ TrackChanges(outbox[c]) = << TrackChangeMsg("Cello"), TrackChangeMsg("Violin") >>

\* C30: a session being accepted is sent the connected snapshot only, which
\* has no track name, whatever was broadcast before; a trackChange is sent
\* to a session only while an inbound trackChange is handled.
C30_NoReplayOnAccept ==
    [][ \A s \in Sessions :
          /\ (readyState[s] = "NONE" /\ readyState'[s] # "NONE") =>
                 /\ Len(outbox'[s]) = 1
                 /\ outbox'[s][1].type = "connected"
                 /\ outbox'[s][1].trackName = Absent
          /\ ~IsTrackChange(evt') => TrackChanges(outbox'[s]) = TrackChanges(outbox[s]) ]_vars

\* A session accepted after a broadcast holds its snapshot only; the next
\* inbound trackChange reached it.
C30_Witness ==
    \E s, t \in Sessions :
        /\ Len(TrackChanges(outbox[s])) = 2
        /\ Len(TrackChanges(outbox[t])) = 1
        /\ outbox[t] = << ConnectedMsg, outbox[s][Len(outbox[s])] >>
        /\ IsTrackChange(evt)

----------------------------------------------------------------------------
(* Properties of a search without a catalogue, under SpecResolver *)

\* C25: with the catalogue's root missing or unreadable, the response to a
\* search is an empty list with status 200, the response a search without
\* a match gets, and the handler treats it so: it keeps the displayed set
\* and the cache and issues no load.
C25_NoCatalogueIsNoMatch ==
    [][ \A r \in inflight :
          (/\ catalogueRoot # "present"
           /\ r.phase = "search"
           /\ r \notin inflight'
           /\ applied'.kind # "error") =>
              /\ Replies[catalogueRoot, r.track]
                    = [status |-> 200, hasSets |-> TRUE, sets |-> <<>>]
              /\ Replies[catalogueRoot, r.track] = Replies["present", Str_Viola]
              /\ applied' = Step("none", r.track, NoName)
              /\ currentSet' = currentSet
              /\ loadedSets' = loadedSets
              /\ inflight' = inflight \ {r} ]_vars

\* The root is missing and the search for "Cello", a name the catalogue
\* would match, has returned: the demo set is still displayed.
C25_Witness ==
    /\ catalogueRoot = "missing"
    /\ applied = Step("none", Str_Cello, NoName)
    /\ currentTrack = Str_Cello
    /\ currentSet = Str_Demo
    /\ loadedSets = <<>>
    /\ inflight = {}

----------------------------------------------------------------------------
(* Properties of the display client's sockets, under SpecSockets *)

\* The sockets that are connecting or open.
LiveSockets == { s \in SocketIds : sockets[s].state \in {"CONNECTING", "OPEN"} }

\* The reconnect timers that are pending.
PendingTimers == connectTimers + (IF wsReconnectTimer THEN 1 ELSE 0)

\* C27: at most one socket is connecting or open and at most one reconnect
\* timer is pending, whatever the initialize calls, opens, errors and
\* closes; the close of one socket does not clear this.webSocket while it
\* refers to another socket that is open.
C27_OneSocketOneTimer ==
    /\ [](Cardinality(LiveSockets) <= 1 /\ PendingTimers <= 1)
    /\ [][ \A s \in SocketIds :
             (/\ thisWebSocket = s
              /\ sockets[s].state = "OPEN"
              /\ sockets'[s].state = "OPEN") => thisWebSocket' # NoSocket ]_vars

----------------------------------------------------------------------------
(* Properties of the track detector, under SpecDetector *)

\* The name given to onTrackChanged last, "" before the first call.
LastEmitted == IF emitted = <<>> THEN "" ELSE emitted[Len(emitted)]

\* C31: on every detection path onTrackChanged is called only with a name
\* that differs from the name emitted last, so no two consecutive calls
\* carry the same name.
C31_EmitsOnChange ==
    /\ [](/\ lastTrackName = LastEmitted
          /\ \A i \in 1..(Len(emitted) - 1) : emitted[i] # emitted[i + 1])
    /\ [][ emitted' # emitted =>
             /\ Len(emitted') = Len(emitted) + 1
             /\ emitted'[Len(emitted')] # LastEmitted ]_vars

\* Three detections, the last one through the focused window's element
\* reading Cello, have emitted Violin and Cello once each.
C31_Witness ==
    /\ nPolls = 3
    /\ emitted = <<"Violin", "Cello">>
    /\ lastLoggedFocus = <<"winFocus", TrackDescription("2", "Cello")>>

\* The track names of the trackChange messages given to the socket.
TrackMessages == SelectSeq(socketSent, LAMBDA m : m.type = "trackChange")

SentNames == [i \in 1..Len(TrackMessages) |-> TrackMessages[i].trackName]

RECURSIVE IsSubSeq(_, _)
IsSubSeq(a, b) ==
    IF a = <<>> THEN TRUE
    ELSE IF b = <<>> THEN FALSE
    ELSE IF Head(a) = Head(b) THEN IsSubSeq(Tail(a), Tail(b))
    ELSE IsSubSeq(a, Tail(b))

\* C32: a name whose block runs while the connection is down is not sent,
\* and opening the connection sends the identification only: every name
\* sent is the name of a block that runs while connected, so a dropped
\* name reaches the server only after a later emission.
C32_DroppedNotResent ==
    /\ [](IsSubSeq(SentNames \o mainQueue, emitted))
    /\ [][ /\ (~isConnected /\ mainQueue # <<>> /\ mainQueue' = Tail(mainQueue))
                => socketSent' = socketSent
           /\ (~isConnected /\ isConnected')
                => /\ socketSent' = Append(socketSent, IdentifyMessage)
                   /\ mainQueue' = mainQueue
           /\ (SentNames' # SentNames)
                => /\ isConnected
                   /\ mainQueue # <<>>
                   /\ SentNames' = Append(SentNames, Head(mainQueue))
                   /\ mainQueue' = Tail(mainQueue) ]_vars

\* Cello was emitted while the connection was down; the connection is open
\* again (it has identified twice), nothing is queued, and no trackChange
\* for Cello was sent.
C32_Witness ==
    /\ isConnected
    /\ Len(SelectSeq(socketSent, LAMBDA m : m.type = "identify")) = 2
    /\ lastTrackName = "Cello"
    /\ emitted = <<"Cello">>
    /\ mainQueue = <<>>
    /\ SentNames = <<>>

----------------------------------------------------------------------------
(* Properties of the server's MIDI input listener, under SpecBridge *)

\* The messages session s is sent in the step.
NewMessages(s) ==
    IF Len(outbox'[s]) > Len(outbox[s])
    THEN SubSeq(outbox'[s], Len(outbox[s]) + 1, Len(outbox'[s]))
    ELSE <<>>

\* The step handles a Poly Pressure message with data1 = 127 from the input
\* named PlugSearch whose data2 is not the recorded id.
NewSetIdArrives ==
    /\ evt'.kind = "midiIn"
    /\ evt'.midiIn.name = "PlugSearch"
    /\ evt'.midiIn.bytes[1] \div 16 = 10
    /\ evt'.midiIn.bytes[2] = 127
    /\ evt'.midiIn.bytes[3] # lastArticulationSetId

\* C33: an articulationSetChange is sent only in a step that handles such a
\* message, and it carries the message's data2; the recorded id becomes
\* data2 in every such step, with or without a display session, and
\* changes in no other step, so consecutive broadcasts carry different ids.
C33_SetChangeOnNewId ==
    [][ /\ \A s \in Sessions : \A i \in 1..Len(NewMessages(s)) :
              NewMessages(s)[i].type = "articulationSetChange" =>
                  /\ NewSetIdArrives
                  /\ NewMessages(s)[i].articulationSetId = evt'.midiIn.bytes[3]
        /\ NewSetIdArrives => lastArticulationSetId' = evt'.midiIn.bytes[3]
        /\ ~NewSetIdArrives => lastArticulationSetId' = lastArticulationSetId ]_vars

\* A display session was sent the ids 1 and 2 in turn, and then id 1 was
\* recorded again with no open display session to send it to.
C33_Witness ==
    /\ evt.kind = "midiIn"
    /\ lastArticulationSetId = 1
    /\ \A t \in Sessions : ~(readyState[t] = "OPEN" /\ clientType[t] = BROWSER)
    /\ \E s \in Sessions :
          /\ Len(outbox[s]) >= 2
          /\ outbox[s][Len(outbox[s]) - 1].type = "articulationSetChange"
          /\ outbox[s][Len(outbox[s]) - 1].articulationSetId = 1
          /\ outbox[s][Len(outbox[s])].type = "articulationSetChange"
          /\ outbox[s][Len(outbox[s])].articulationSetId = 2

----------------------------------------------------------------------------
(* Ranges and distinctness of assigned notes, under SpecAssign *)

\* C34: every note autoAssignRemoteTriggers assigns lies in 0..127, for
\* every integer startNote, negative or above 127.
C34_AssignedInRange ==
    once.status = "returned" =>
        \A i \in Lacking(artSet.articulations) :
            once.set.articulations[i].remoteTrigger.data1 \in 0..MaxNote

\* The remote-trigger notes of the articulations are pairwise distinct.
DistinctNotes(arts) ==
    \A i, j \in 1..Len(arts) :
        (/\ i < j
         /\ arts[i].remoteTrigger.present
         /\ arts[j].remoteTrigger.present)
            => arts[i].remoteTrigger.data1 # arts[j].remoteTrigger.data1

\* C35: when the remote-trigger notes present in the input are pairwise
\* distinct, those of a returned set are pairwise distinct too, triggers
\* marked isAutoAssigned in the input included.
C35_NotesStayDistinct ==
    (once.status = "returned" /\ DistinctNotes(artSet.articulations))
        => DistinctNotes(once.set.articulations)

----------------------------------------------------------------------------
(* Ranges of the parser's results, under SpecParse *)

\* C36: every remote trigger and every output message of a parsed set has
\* data1 in 0..127, whatever MB1, Note and the switch's MB1 are.
C36_ParsedInRange ==
    parsed.status = "returned" =>
        \A i \in 1..Len(parsed.set.articulations) :
            LET art == parsed.set.articulations[i]
            IN  /\ art.remoteTrigger.present => art.remoteTrigger.data1 \in 0..MaxNote
                /\ \A k \in 1..Len(art.midiMessages) :
                       art.midiMessages[k].data1 \in 0..MaxNote

----------------------------------------------------------------------------
(* The sets the display client stores, under SpecUpload *)

----------------------------------------------------------------------------
(* The transport of a sendMessages call, under SpecSend *)

\* C38: a call sends its messages, in the order given, through the bridge
\* socket alone when the socket is open and otherwise through the selected
\* Web MIDI output alone; when the output's send throws at message k, the
\* messages before k were sent, none after k, and the call returns false.
C38_OneTransportInOrder ==
    call.active =>
        LET all == [i \in 1..Len(call.messages) |->
                       Transmitted(call.messages[i], call.useGlobalChannel)]
        IN  /\ call.viaWebSocket = <<>> \/ call.viaWebMidi = <<>>
            /\ IF webSocket = "OPEN"
               THEN /\ call.viaWebSocket = all
                    /\ call.result
               ELSE /\ call.viaWebSocket = <<>>
                    /\ IF selectedOutput = "null"
                       THEN call.viaWebMidi = <<>> /\ ~call.result
                       ELSE IF call.failedAt = 0
                       THEN call.viaWebMidi = all /\ call.result
                       ELSE /\ call.viaWebMidi = SubSeq(all, 1, call.failedAt - 1)
                            /\ ~call.result

\* With the socket not open, the Web MIDI send threw at the first of two
\* messages: nothing was sent and the call returned false.
C38_Witness ==
    /\ call.active
    /\ webSocket # "OPEN"
    /\ selectedOutput = "output"
    /\ Len(call.messages) = 2
    /\ call.failedAt = 1
    /\ call.viaWebMidi = <<>>
    /\ call.viaWebSocket = <<>>
    /\ ~call.result

====
